---------------------------- MODULE Spec2Model ----------------------------
(***************************************************************************)
(* Model of the offline subsystem of the M113 reglementsbibliotek:         *)
(*   - the Offline Coordinator  (src/js/offline-manager.js, OfflineManager)*)
(*   - the Cache Controller     (src/sw.js, the service worker)            *)
(*   - the durable cache store (CacheStorage) and the localStorage mirror. *)
(*                                                                         *)
(* Both contexts are single threaded and event driven.  An async function  *)
(* runs without interruption up to its next await; one action of the model *)
(* is one such run: the effect of the awaited operation followed by the    *)
(* synchronous code up to the next await (or to the return).               *)
(***************************************************************************)
EXTENDS Naturals, Sequences, FiniteSets

\* ------------------------------------------------------------------ bounds
\* Concurrent foreground calls made by the UI (downloadManual / removeManual).
MaxCalls == 1
\* Messages the worker can be processing at the same time.
MaxTasks == 2
\* Page images of one manual (the file list of getManualFiles is a subset).
MaxPages == 1

\* ------------------------------------------------------- program constants
\* sw.js MANUAL_FILES: the manuals the worker knows, each with three core files.
ManualIds == {"HRN113-001", "HRN113-002", "HRN737-012", "HRN737-018"}
\* The manual whose offline button the page shows (data-manual-id).
PageManuals == {"HRN113-001"}

\* A manualId that is not a string (the caller had no manual to name).
Undefined == "undefined"
\* The arguments the page passes to downloadManual.
CallIds == PageManuals \cup {Undefined}

NoId == "-"

\* The call slot used by init() for loadOfflineManuals.
LoadSlot == MaxCalls + 1
Slots == 1..LoadSlot
UserSlots == 1..MaxCalls

\* ----------------------------------------------------------------- helpers
SeqToSet(s) == {s[i] : i \in 1..Len(s)}

RECURSIVE SeqRemove(_, _)
SeqRemove(s, x) ==
    IF s = <<>> THEN <<>>
    ELSE IF Head(s) = x THEN SeqRemove(Tail(s), x)
    ELSE <<Head(s)>> \o SeqRemove(Tail(s), x)

\* JavaScript Set: insertion ordered, no duplicates.  Modelled as a sequence.
SetHas(s, x) == x \in SeqToSet(s)
SetAdd(s, x) == IF SetHas(s, x) THEN s ELSE Append(s, x)
SetDelete(s, x) == SeqRemove(s, x)

\* new Set(array): keeps the first occurrence of each element, in order.
RECURSIVE NewSetFrom(_, _)
NewSetFrom(acc, arr) ==
    IF arr = <<>> THEN acc ELSE NewSetFrom(SetAdd(acc, Head(arr)), Tail(arr))
NewSet(arr) == NewSetFrom(<<>>, arr)

\* Array.from(set): the elements in insertion order.
ArrayFrom(set) == set

\* JSON text is a sequence of tokens: "[", a quoted string, ",", "]".
Token(kind, s) == [tok |-> kind, s |-> s]

\* JSON.stringify of an array of strings: ["a","b"]
RECURSIVE JSONElements(_)
JSONElements(arr) ==
    IF arr = <<>> THEN <<>>
    ELSE IF Len(arr) = 1 THEN <<Token("string", arr[1])>>
    ELSE <<Token("string", Head(arr)), Token(",", "")>> \o JSONElements(Tail(arr))
JSONStringify(arr) == <<Token("[", "")>> \o JSONElements(arr) \o <<Token("]", "")>>

\* JSON.parse of the text of an array of strings: its elements in order
RECURSIVE JSONParse(_)
JSONParse(text) ==
    IF text = <<>> THEN <<>>
    ELSE IF Head(text).tok = "string"
         THEN <<Head(text).s>> \o JSONParse(Tail(text))
         ELSE JSONParse(Tail(text))

\* -------------------------------------------------------------- resources
\* sw.js MANUAL_FILES[manualId] || []
CoreKinds == {"html", "search-index", "toc"}
Url(id, kind, n) == [manual |-> id, kind |-> kind, n |-> n]
ManualFiles(id) ==
    IF id \in ManualIds THEN {Url(id, k, 0) : k \in CoreKinds} ELSE {}

\* The page images of a manual: /pages/<id>/....png
PageFiles(id) == {Url(id, "page", n) : n \in 1..MaxPages}

\* `manual-${manualId}` and cacheName.replace('manual-', '')
CacheNameOf(id) == [prefix |-> "manual-", rest |-> id]
ManualIdOf(cacheName) == cacheName.rest
StartsWithManual(cacheName) == cacheName.prefix = "manual-"

\* `${cacheName}-metadata`, the key of the metadata entry
MetadataKey(cacheName) == Url(ManualIdOf(cacheName), "metadata", 0)

NoMeta == [id |-> NoId, fileCount |-> 0, stored |-> FALSE]
Metadata(id, n) == [id |-> id, fileCount |-> n, stored |-> TRUE]

VARIABLES
    \* --- foreground, OfflineManager fields (reset by every page load)
    swRegistration,      \* TRUE when this.swRegistration is a registration
    serviceWorkerFailed, \* this.serviceWorkerFailed
    offlineManuals,      \* this.offlineManuals (JavaScript Set)
    pendingDownloads,    \* this.pendingDownloads
    initPc,              \* position of init()
    calls,               \* the async calls in flight, by slot
    updatePc,            \* position of performUpdate()
    \* --- observation
    lastReturn,          \* the call that returned in the last step, if any
    reconciled,          \* loadOfflineManuals took a worker's list this session
    \* --- durable, survives page loads
    localStorage,        \* the item 'offlineManuals' (NoItem or JSON text)
    caches,              \* CacheStorage: caches in creation order
    \* --- worker
    workerState,         \* "none", "installing", "installed", "active"
    tasks,               \* the message handlers in progress (a set)
    clientPorts,         \* messages of clients not followed, and the replies
    \* --- update check (OfflineManager fields and the page's timers)
    isOnline,            \* this.isOnline
    lastUpdateCheck,     \* this.lastUpdateCheck (0: no check yet)
    now,                 \* Date.now()
    checkTimers,         \* pending setTimeout(() => this.checkForUpdates())
    checks,              \* the checkForUpdates calls made, in call order
    \* --- worker, fetch events
    fetching,            \* the fetch handlers in progress (a set)
    lastResponse,        \* what the last finished fetch event was answered with
    \* --- search (App fields and the last call of search)
    searchIndex,         \* this.searchIndex
    pages,               \* this.pages.length
    searched,            \* the last search(query) and what it returned
    extracted,           \* the last getSearchContext(text, query)
    highlighted          \* the last highlightText(text, query)

\* The state of the update check.
updateVars == <<isOnline, lastUpdateCheck, now, checkTimers, checks>>

\* The state that the download / remove / reconcile protocol does not touch.
\* The state of the worker's fetch handling.
fetchVars == <<fetching, lastResponse>>

\* The state of the search.
searchVars == <<searchIndex, pages, searched, extracted, highlighted>>

outside == <<updateVars, fetchVars, searchVars, clientPorts>>

vars == <<swRegistration, serviceWorkerFailed, offlineManuals,
          pendingDownloads, initPc, calls, updatePc, lastReturn, reconciled,
          localStorage, caches, workerState, tasks, outside>>

\* The fields of the OfflineManager that only init() writes.
session == <<swRegistration, serviceWorkerFailed, initPc, reconciled>>

\* ------------------------------------------------------------ CacheStorage
\* A cache: its name, the request keys it holds and the body of its metadata
\* entry (NoMeta when it holds none).
EmptyCache(name) == [name |-> name, entries |-> {}, meta |-> NoMeta]

\* caches.keys(): the names in creation order
CacheKeys(store) == [i \in 1..Len(store) |-> store[i].name]
\* caches.has(name)
CacheHas(store, name) == \E i \in 1..Len(store) : store[i].name = name
CacheGet(store, name) ==
    store[CHOOSE i \in 1..Len(store) : store[i].name = name]

\* caches.open(name): creates the cache when it does not exist
CacheOpen(store, name) ==
    IF CacheHas(store, name) THEN store ELSE Append(store, EmptyCache(name))

\* caches.delete(name): the store afterwards (the promise's value is CacheHas)
RECURSIVE CacheDelete(_, _)
CacheDelete(store, name) ==
    IF store = <<>> THEN <<>>
    ELSE IF Head(store).name = name THEN CacheDelete(Tail(store), name)
    ELSE <<Head(store)>> \o CacheDelete(Tail(store), name)

\* cache.addAll(urls) on a cache that is still in the store
CacheAddAll(store, name, urls) ==
    [i \in 1..Len(store) |->
        IF store[i].name = name
        THEN [store[i] EXCEPT !.entries = @ \cup urls]
        ELSE store[i]]

\* cache.put(`${cacheName}-metadata`, new Response(JSON.stringify(metadata)))
CachePutMeta(store, name, metadata) ==
    [i \in 1..Len(store) |->
        IF store[i].name = name
        THEN [store[i] EXCEPT !.entries = @ \cup {MetadataKey(name)},
                              !.meta = metadata]
        ELSE store[i]]

\* ------------------------------------------------------- replies and calls
NoReply == [kind |-> "none", success |-> FALSE, manualId |-> NoId,
            fileCount |-> 0, manuals |-> <<>>]
\* { success: true, manualId, fileCount } / { success: false, manualId, error }
CacheManualReply(ok, id, n) ==
    [kind |-> "cache-manual", success |-> ok, manualId |-> id,
     fileCount |-> n, manuals |-> <<>>]
\* { success: deleted, manualId }
RemoveManualReply(deleted, id) ==
    [kind |-> "remove-manual", success |-> deleted, manualId |-> id,
     fileCount |-> 0, manuals |-> <<>>]
\* { success: true, manuals: offlineManuals }
OfflineManualsReply(list) ==
    [kind |-> "get-offline-manuals", success |-> TRUE, manualId |-> NoId,
     fileCount |-> 0, manuals |-> list]
\* { success: true, hasUpdate, ... } / { success: false, error }
CheckVersionReply(ok) ==
    [kind |-> "check-version", success |-> ok, manualId |-> NoId,
     fileCount |-> 0, manuals |-> <<>>]
\* { error: `Unknown action: ${action}` }: the reply has no success field
UnknownActionReply ==
    [kind |-> "error", success |-> Undefined, manualId |-> NoId,
     fileCount |-> 0, manuals |-> <<>>]

\* A foreground call.
IdleCall == [op |-> "idle", manualId |-> NoId, pc |-> "idle", files |-> {},
             reply |-> NoReply]
NoReturn == [op |-> "none", manualId |-> NoId, value |-> FALSE]
Returned(op, id, v) == [op |-> op, manualId |-> id, value |-> v]

\* localStorage.getItem('offlineManuals') is null: `if (stored)` is false
NoItem == <<>>

\* --------------------------------------------------------------- the state
\* A request: its method, its URL and whether its accept header includes
\* text/html.
Request(method, url, html) == [method |-> method, url |-> url, html |-> html]
\* The answer to a fetch event.  source:
\*   "none"       no fetch event has finished
\*   "browser"    the handler did not call respondWith
\*   "cache"      a response found by caches.match (of `url`)
\*   "network"    the response of fetch(request)
\*   "notFound"   new Response('Image not available offline', {status: 404})
\*   "undefined"  respondWith got a promise for undefined: a network error
Response(source, url) == [source |-> source, url |-> url]
NoResponse == Response("none", Url(NoId, "none", 0))
\* No message of a client that is not followed.
NoClient == clientPorts = <<>>
\* No fetch event yet.
NoFetch ==
    /\ fetching = {}
    /\ lastResponse = NoResponse

\* The App before its search index is loaded (app.js 3-4) and before any
\* search.
NoIndex == [loaded |-> FALSE, words |-> <<>>]
\* pageMatches, the object search fills (app.js 434), keyed by page id: keys
\* are the ids in the order in which they were added, at the entry of each.
NoPageMatches == [keys |-> <<>>, at |-> <<>>]
\* searched: the last search call, the query it was given, its pageMatches
\* after the scan (app.js 490) and the array it returned.
NotSearched ==
    [done |-> FALSE, query |-> <<>>, pageMatches |-> NoPageMatches,
     results |-> <<>>]
\* extracted: the last getSearchContext call, its arguments, bestIndex after
\* the first pass (app.js 543) and after the second (564), and the string
\* returned.  highlighted: the last highlightText call, its sortedWords
\* (app.js 729; none when it returns at 688) and its result.
NotExtracted ==
    [done |-> FALSE, text |-> <<>>, query |-> <<>>, firstIndex |-> 0,
     bestIndex |-> 0, context |-> <<>>]
NotHighlighted ==
    [done |-> FALSE, text |-> <<>>, query |-> <<>>, words |-> <<>>,
     html |-> <<>>]
NoExcerpt ==
    /\ extracted = NotExtracted
    /\ highlighted = NotHighlighted
NoSearch ==
    /\ searchIndex = NoIndex
    /\ pages = 0
    /\ searched = NotSearched
    /\ NoExcerpt

\* The update check before init() has set its timers: the constructor's
\* lastUpdateCheck = 0 (offline-manager.js 13), no timer, no call made.
NoUpdateCheck ==
    /\ isOnline = TRUE
    /\ lastUpdateCheck = 0
    /\ now = 1
    /\ checkTimers = 0
    /\ checks = <<>>

\* The first load of the page: nothing stored, no worker registered, the
\* OfflineManager just constructed (offline-manager.js 7-19).
Init ==
    /\ swRegistration = FALSE
    /\ serviceWorkerFailed = FALSE
    /\ offlineManuals = <<>>
    /\ pendingDownloads = {}
    /\ initPc = "register"
    /\ calls = [c \in Slots |-> IdleCall]
    /\ updatePc = "idle"
    /\ lastReturn = NoReturn
    /\ reconciled = FALSE
    /\ localStorage = NoItem
    /\ caches = <<>>
    /\ workerState = "none"
    /\ tasks = {}
    /\ NoUpdateCheck
    /\ NoFetch
    /\ NoClient
    /\ NoSearch

\* ------------------------------------------------------------------ worker
\* A message handler of the worker is a record (see NewTask).  port: the call
\* slot that waits for the reply (0 when nobody listens any more, a number
\* above the slots for the port of a client that is not followed); live: the
\* Cache object of cacheManual is still the one the store holds under its
\* name.  Handlers nobody listens to that are in the same position are not
\* told apart: their steps have the same effect on the store.

\* port.postMessage(reply): the message reaches the call that holds the other
\* end of the channel, if it still waits.
PostReply(t, reply) ==
    /\ calls' = IF t.port \in Slots /\ calls[t.port].pc = "awaitReply"
                THEN [calls EXCEPT ![t.port].reply = reply]
                ELSE calls
    /\ clientPorts' = IF t.port > LoadSlot
                      THEN [clientPorts EXCEPT ![t.port - LoadSlot].replies =
                                                  Append(@, reply)]
                      ELSE clientPorts

FinishTask(t) == tasks' = tasks \ {t}
StepTask(t, u) == tasks' = (tasks \ {t}) \cup {u}

\* Every Cache object opened on one of `names` stops being the store's cache.
Detach(ts, names) ==
    {IF t.action = "cache-manual" /\ CacheNameOf(t.manualId) \in names
     THEN [t EXCEPT !.live = FALSE]
     ELSE t : t \in ts}

\* What a worker step leaves alone in the page.
pageAlone == <<session, offlineManuals, pendingDownloads, updatePc,
               localStorage, workerState, updateVars, fetchVars, searchVars>>

\* cacheManual, sw.js 192-228 ------------------------------------------
\* const cache = await caches.open(cacheName)
CacheManualOpen(t) ==
    /\ t.action = "cache-manual" /\ t.pc = "open"
    /\ caches' = CacheOpen(caches, CacheNameOf(t.manualId))
    /\ StepTask(t, [t EXCEPT !.pc = "addCore", !.live = TRUE])
    /\ lastReturn' = NoReturn
    /\ UNCHANGED <<pageAlone, calls, clientPorts>>

\* fileCount: coreFiles.length + (files ? files.length : 0)
FileCount(id, files) == Cardinality(ManualFiles(id)) + Cardinality(files)

\* await cache.addAll(coreFiles), then `if (files && files.length > 0)`;
\* ok = FALSE: a fetch fails, addAll rejects and stores nothing.
CacheManualAddCore(t, ok) ==
    /\ t.action = "cache-manual" /\ t.pc = "addCore"
    /\ IF ok
       THEN /\ caches' = IF t.live
                         THEN CacheAddAll(caches, CacheNameOf(t.manualId),
                                          ManualFiles(t.manualId))
                         ELSE caches
            /\ StepTask(t, [t EXCEPT !.pc =
                              IF t.files # {} THEN "addFiles" ELSE "putMeta"])
            /\ UNCHANGED <<calls, clientPorts>>
       ELSE /\ PostReply(t, CacheManualReply(FALSE, t.manualId, 0))
            /\ FinishTask(t)
            /\ UNCHANGED caches
    /\ lastReturn' = NoReturn
    /\ UNCHANGED pageAlone

\* await cache.addAll(files)
CacheManualAddFiles(t, ok) ==
    /\ t.action = "cache-manual" /\ t.pc = "addFiles"
    /\ IF ok
       THEN /\ caches' = IF t.live
                         THEN CacheAddAll(caches, CacheNameOf(t.manualId), t.files)
                         ELSE caches
            /\ StepTask(t, [t EXCEPT !.pc = "putMeta"])
            /\ UNCHANGED <<calls, clientPorts>>
       ELSE /\ PostReply(t, CacheManualReply(FALSE, t.manualId, 0))
            /\ FinishTask(t)
            /\ UNCHANGED caches
    /\ lastReturn' = NoReturn
    /\ UNCHANGED pageAlone

\* await cache.put(metadata key, metadata); port.postMessage({success: true, ...})
CacheManualPutMeta(t) ==
    /\ t.action = "cache-manual" /\ t.pc = "putMeta"
    /\ LET n == FileCount(t.manualId, t.files) IN
       /\ caches' = IF t.live
                    THEN CachePutMeta(caches, CacheNameOf(t.manualId),
                                      Metadata(t.manualId, n))
                    ELSE caches
       /\ PostReply(t, CacheManualReply(TRUE, t.manualId, n))
    /\ FinishTask(t)
    /\ lastReturn' = NoReturn
    /\ UNCHANGED pageAlone

\* removeManual, sw.js 231-243 -----------------------------------------
SwRemoveManual(t) ==
    /\ t.action = "remove-manual" /\ t.pc = "delete"
    /\ LET name == CacheNameOf(t.manualId)
           deleted == CacheHas(caches, name) IN
       /\ caches' = CacheDelete(caches, name)
       /\ PostReply(t, RemoveManualReply(deleted, t.manualId))
       /\ tasks' = Detach(tasks \ {t}, {name})
    /\ lastReturn' = NoReturn
    /\ UNCHANGED pageAlone

\* getOfflineManuals, sw.js 246-271 ------------------------------------
\* A filter that keeps every cache name.
FilterManual_All(names) == names
\* cacheNames.filter(name => name.startsWith('manual-'))
RECURSIVE FilterManual(_)
FilterManual(names) ==
    IF names = <<>> THEN <<>>
    ELSE IF StartsWithManual(Head(names))
         THEN <<Head(names)>> \o FilterManual(Tail(names))
         ELSE FilterManual(Tail(names))

\* One turn of the loop over manualCaches: the metadata record of a cache,
\* the default record when it has no metadata entry.
MetadataOf(store, cacheName) ==
    LET manualId == ManualIdOf(cacheName)
        cache == CacheGet(CacheOpen(store, cacheName), cacheName) IN
    IF cache.meta.stored THEN cache.meta
    ELSE [id |-> manualId, fileCount |-> 0, stored |-> FALSE]

\* const cacheNames = await caches.keys(); with no manual cache the loop is
\* skipped and the reply is posted at once.
SwGetOfflineManualsKeys(t) ==
    /\ t.action = "get-offline-manuals" /\ t.pc = "keys"
    /\ LET manualCaches == FilterManual(CacheKeys(caches)) IN
       IF manualCaches = <<>>
       THEN /\ PostReply(t, OfflineManualsReply(<<>>))
            /\ FinishTask(t)
       ELSE /\ StepTask(t, [t EXCEPT !.pc = "read", !.names = manualCaches])
            /\ UNCHANGED <<calls, clientPorts>>
    /\ lastReturn' = NoReturn
    /\ UNCHANGED <<pageAlone, caches>>

\* caches.open(cacheName), cache.match(metadata key), metadataResponse.json(),
\* offlineManuals.push(metadata); after the last cache the reply is posted.
SwGetOfflineManualsRead(t) ==
    /\ t.action = "get-offline-manuals" /\ t.pc = "read"
    /\ LET cacheName == Head(t.names)
           acc == Append(t.acc, MetadataOf(caches, cacheName)) IN
       /\ caches' = CacheOpen(caches, cacheName)
       /\ IF Tail(t.names) = <<>>
          THEN /\ PostReply(t, OfflineManualsReply(acc))
               /\ FinishTask(t)
          ELSE /\ StepTask(t, [t EXCEPT !.names = Tail(@), !.acc = acc])
               /\ UNCHANGED <<calls, clientPorts>>
    /\ lastReturn' = NoReturn
    /\ UNCHANGED pageAlone

\* getOfflineManuals run from its first to its last line with no other
\* handler in between: the list it posts for a store.
RECURSIVE ReadManualCaches(_, _)
ReadManualCaches(store, names) ==
    IF names = <<>> THEN <<>>
    ELSE <<MetadataOf(store, Head(names))>> \o
         ReadManualCaches(CacheOpen(store, Head(names)), Tail(names))
GetOfflineManuals(store) ==
    ReadManualCaches(store, FilterManual(CacheKeys(store)))

\* The installing worker finishes its install handler: registration.installing
\* becomes null, registration.waiting is set (sw.js 47-60).
WorkerInstalled ==
    /\ workerState = "installing"
    /\ workerState' = "installed"
    /\ lastReturn' = NoReturn
    /\ UNCHANGED <<session, offlineManuals, pendingDownloads, updatePc,
                   localStorage, calls, caches, tasks>>
    /\ UNCHANGED outside

\* The installed worker becomes the registration's active worker (sw.js 63-81).
WorkerActivate ==
    /\ workerState = "installed"
    /\ workerState' = "active"
    /\ lastReturn' = NoReturn
    /\ UNCHANGED <<session, offlineManuals, pendingDownloads, updatePc,
                   localStorage, calls, caches, tasks>>
    /\ UNCHANGED outside

\* -------------------------------------------------------------- foreground
\* A saveOfflineManuals that writes an empty array.
SaveOfflineManuals_Empty(set) == JSONStringify(<<>>)
\* saveOfflineManuals, offline-manager.js 439-441
SaveOfflineManuals(set) == JSONStringify(ArrayFrom(set))

\* The lowest idle call slot of the UI, 0 when all are in use (a call that
\* returns before its first await needs none).
FreeSlot ==
    IF \E c \in UserSlots : calls[c].op = "idle"
    THEN CHOOSE c \in UserSlots :
            /\ calls[c].op = "idle"
            /\ \A d \in UserSlots : calls[d].op = "idle" => c <= d
    ELSE 0

\* The first step of the handler that the worker's message listener starts
\* for an action (sw.js 158-189).
FirstPc(action) ==
    CASE action = "cache-manual" -> "open"
      [] action = "remove-manual" -> "delete"
      [] action = "get-offline-manuals" -> "keys"
      [] action = "check-version" -> "fetch"

NewTask(action, id, files, c) ==
    [action |-> action, manualId |-> id, files |-> files, port |-> c,
     pc |-> FirstPc(action), live |-> FALSE, names |-> <<>>, acc |-> <<>>]

\* sendMessageToSW up to its first real wait, offline-manager.js 371-407 with
\* waitForServiceWorkerReady 326-345:
\*   "reject"  no registration
\*   "post"    registration.active exists: the message is posted at once
\*   "hung"    registration.installing exists: waits for a statechange whose
\*             listener reads registration.installing.state (never resolves)
\*   "polling" neither: polls registration.active every 100 ms until timeout
SendOutcomeOf(registration, worker) ==
    IF ~registration THEN "reject"
    ELSE IF worker = "active" THEN "post"
    ELSE IF worker = "installing" THEN "hung"
    ELSE "polling"

SendOutcome == SendOutcomeOf(swRegistration, workerState)

\* The action a call asks of the worker.
ActionOf(op) ==
    CASE op = "download" -> "cache-manual"
      [] op = "remove" -> "remove-manual"
      [] op = "load" -> "get-offline-manuals"

\* this.swRegistration.active.postMessage({action, ...data}, [port2])
PostMessage(c, call) ==
    /\ Cardinality(tasks) < MaxTasks
    /\ tasks' = tasks \cup
                  {NewTask(ActionOf(call.op), call.manualId, call.files, c)}
    /\ calls' = [calls EXCEPT ![c] = [call EXCEPT !.pc = "awaitReply"]]

\* sendMessageToSW entered by call c (whose record becomes `call`) when the
\* promise is not rejected at once.
SendMessageToSW(c, call, outcome) ==
    /\ outcome # "reject"
    /\ IF outcome = "post"
       THEN PostMessage(c, call)
       ELSE /\ calls' = [calls EXCEPT ![c] = [call EXCEPT !.pc = outcome]]
            /\ UNCHANGED tasks

\* A downloadManual that does not look at pendingDownloads.
DownloadAlreadyPending_Off(manualId) == FALSE
\* downloadManual's guards, offline-manager.js 132-141
DownloadAlreadyPending(manualId) == manualId \in pendingDownloads
WorkerUnavailable == serviceWorkerFailed \/ ~swRegistration

\* A removeManual that does not look at pendingDownloads.
RemoveBlocked_Off(manualId) == FALSE
\* removeManual's guard, offline-manager.js 216-219
RemoveBlocked(manualId) == manualId \in pendingDownloads

\* A downloadManual without its `finally`.
ClearPending_Keeps(manualId) == pendingDownloads
\* downloadManual: `finally`, offline-manager.js 195-197
ClearPending(manualId) == pendingDownloads \ {manualId}

\* A downloadManual that marks the manual offline before it knows the outcome.
DownloadFailed_Adds(manualId) ==
    /\ lastReturn' = Returned("download", manualId, FALSE)
    /\ pendingDownloads' = ClearPending(manualId)
    /\ offlineManuals' = SetAdd(offlineManuals, manualId)
    /\ localStorage' = SaveOfflineManuals(offlineManuals')
    /\ UNCHANGED <<initPc, reconciled>>
\* downloadManual: catch and finally, offline-manager.js 168-197
DownloadFailed(manualId) ==
    /\ lastReturn' = Returned("download", manualId, FALSE)
    /\ pendingDownloads' = ClearPending(manualId)
    /\ UNCHANGED <<offlineManuals, localStorage, initPc, reconciled>>

\* removeManual: catch, offline-manager.js 234-238
RemoveFailed(manualId) ==
    /\ lastReturn' = Returned("remove", manualId, FALSE)
    /\ UNCHANGED <<offlineManuals, localStorage, pendingDownloads, initPc,
                   reconciled>>

\* loadOfflineManuals: catch, then init() goes on, offline-manager.js 430-436
LoadFailed ==
    /\ initPc' = "ready"
    /\ lastReturn' = NoReturn
    /\ UNCHANGED <<offlineManuals, localStorage, pendingDownloads, reconciled>>

\* The rejection of sendMessageToSW's promise as seen by the caller.
Rejected(c) ==
    CASE calls[c].op = "download" -> DownloadFailed(calls[c].manualId)
      [] calls[c].op = "remove" -> RemoveFailed(calls[c].manualId)
      [] calls[c].op = "load" -> LoadFailed

\* downloadManual, offline-manager.js 131-147: up to `await getManualFiles`
DownloadManual(manualId) ==
    /\ IF DownloadAlreadyPending(manualId) \/ WorkerUnavailable
       THEN /\ lastReturn' = Returned("download", manualId, FALSE)
            /\ UNCHANGED <<calls, pendingDownloads>>
       ELSE /\ FreeSlot # 0
            /\ pendingDownloads' = pendingDownloads \cup {manualId}
            /\ calls' = [calls EXCEPT ![FreeSlot] =
                            [IdleCall EXCEPT !.op = "download",
                                             !.manualId = manualId,
                                             !.pc = "getFiles"]]
            /\ lastReturn' = NoReturn
    /\ UNCHANGED <<session, offlineManuals, updatePc, localStorage, caches,
                   workerState, tasks>>
    /\ UNCHANGED outside

\* getManualFiles resolves (offline-manager.js 251-323) with the page images
\* of the manual's search index, or with those a probe found, possibly none;
\* for a manualId that is not a string it rejects (manualId.startsWith is not
\* a function).  Then sendMessageToSW('cache-manual', {manualId, files}) is
\* entered.
GetManualFilesThrows(manualId) == manualId = Undefined

GetManualFiles(c, files) ==
    /\ calls[c].op = "download" /\ calls[c].pc = "getFiles"
    /\ files \subseteq PageFiles(calls[c].manualId)
    /\ GetManualFilesThrows(calls[c].manualId) => files = {}
    /\ IF GetManualFilesThrows(calls[c].manualId) \/ SendOutcome = "reject"
       THEN /\ DownloadFailed(calls[c].manualId)
            /\ calls' = [calls EXCEPT ![c] = IdleCall]
            /\ UNCHANGED tasks
       ELSE /\ SendMessageToSW(c, [calls[c] EXCEPT !.files = files], SendOutcome)
            /\ lastReturn' = NoReturn
            /\ UNCHANGED <<offlineManuals, localStorage, pendingDownloads,
                           initPc, reconciled>>
    /\ UNCHANGED <<swRegistration, serviceWorkerFailed, updatePc, caches,
                   workerState>>
    /\ UNCHANGED outside

\* removeManual, offline-manager.js 215-222: up to the wait in sendMessageToSW
RemoveManual(manualId) ==
    /\ IF RemoveBlocked(manualId) \/ SendOutcome = "reject"
       THEN /\ lastReturn' = Returned("remove", manualId, FALSE)
            /\ UNCHANGED <<calls, tasks>>
       ELSE /\ FreeSlot # 0
            /\ SendMessageToSW(FreeSlot, [IdleCall EXCEPT !.op = "remove",
                                                   !.manualId = manualId],
                               SendOutcome)
            /\ lastReturn' = NoReturn
    /\ UNCHANGED <<session, offlineManuals, pendingDownloads, updatePc,
                   localStorage, caches, workerState>>
    /\ UNCHANGED outside

\* A toggleOfflineStatus with its two branches exchanged.
ToggleOfflineStatus_Swapped(manualId) ==
    IF SetHas(offlineManuals, manualId)
    THEN DownloadManual(manualId)
    ELSE RemoveManual(manualId)
\* toggleOfflineStatus, offline-manager.js 242-248
ToggleOfflineStatus(manualId) ==
    IF SetHas(offlineManuals, manualId)
    THEN RemoveManual(manualId)
    ELSE DownloadManual(manualId)

\* The polling loop of waitForServiceWorkerReady sees registration.active
\* (offline-manager.js 352-367); the message is posted.
PollActive(c) ==
    /\ calls[c].pc = "polling"
    /\ workerState = "active"
    /\ PostMessage(c, calls[c])
    /\ lastReturn' = NoReturn
    /\ UNCHANGED <<session, offlineManuals, pendingDownloads, updatePc,
                   localStorage, caches, workerState>>
    /\ UNCHANGED outside

\* The polling loop ends after 10 s (15 s on iOS) without an active worker:
\* waitForServiceWorkerReady throws, or on iOS returns false and
\* registration.active.postMessage throws; either way the promise rejects.
PollTimeout(c) ==
    /\ calls[c].pc = "polling"
    /\ workerState # "active"
    /\ Rejected(c)
    /\ calls' = [calls EXCEPT ![c] = IdleCall]
    /\ UNCHANGED <<swRegistration, serviceWorkerFailed, updatePc, caches,
                   workerState, tasks>>
    /\ UNCHANGED outside

\* A sendMessageToSW whose calls share one channel: the port of a call that
\* timed out goes on delivering.
ClosePort_Shared(ts, c) == ts
\* The 30 s timer of sendMessageToSW fires before the reply is handled
\* (offline-manager.js 389-391).  The worker's handler goes on; its reply, if
\* any, finds a settled promise.
ClosePort(ts, c) ==
    {IF t.port = c THEN [t EXCEPT !.port = 0] ELSE t : t \in ts}

ResponseTimeout(c) ==
    /\ calls[c].pc = "awaitReply"
    /\ Rejected(c)
    /\ calls' = [calls EXCEPT ![c] = IdleCall]
    /\ tasks' = ClosePort(tasks, c)
    /\ UNCHANGED <<swRegistration, serviceWorkerFailed, updatePc, caches,
                   workerState>>
    /\ UNCHANGED outside

\* result.manuals.map(m => m.id)
RECURSIVE MapIds(_)
MapIds(manuals) ==
    IF manuals = <<>> THEN <<>>
    ELSE <<Head(manuals).id>> \o MapIds(Tail(manuals))

\* downloadManual after the reply, offline-manager.js 158-166 and 195-197
DownloadReplied(manualId, result) ==
    IF result.success
    THEN /\ offlineManuals' = SetAdd(offlineManuals, manualId)
         /\ localStorage' = SaveOfflineManuals(offlineManuals')
         /\ lastReturn' = Returned("download", manualId, TRUE)
         /\ pendingDownloads' = ClearPending(manualId)
         /\ UNCHANGED <<initPc, reconciled>>
    ELSE DownloadFailed(manualId)

\* A removeManual that does not look at result.success.
RemoveReplied_Always(manualId, result) ==
    /\ offlineManuals' = SetDelete(offlineManuals, manualId)
    /\ localStorage' = SaveOfflineManuals(offlineManuals')
    /\ lastReturn' = Returned("remove", manualId, TRUE)
    /\ UNCHANGED <<pendingDownloads, initPc, reconciled>>
\* removeManual after the reply, offline-manager.js 224-232
RemoveReplied(manualId, result) ==
    IF result.success
    THEN /\ offlineManuals' = SetDelete(offlineManuals, manualId)
         /\ localStorage' = SaveOfflineManuals(offlineManuals')
         /\ lastReturn' = Returned("remove", manualId, TRUE)
         /\ UNCHANGED <<pendingDownloads, initPc, reconciled>>
    ELSE RemoveFailed(manualId)

\* A loadOfflineManuals that adds the worker's ids to the set it has.
LoadReplied_Merges(result) ==
    /\ offlineManuals' = NewSetFrom(offlineManuals, MapIds(result.manuals))
    /\ localStorage' = SaveOfflineManuals(offlineManuals')
    /\ reconciled' = TRUE
    /\ initPc' = "ready"
    /\ lastReturn' = NoReturn
    /\ UNCHANGED pendingDownloads
\* loadOfflineManuals after the reply, offline-manager.js 425-436
LoadReplied(result) ==
    IF result.success
    THEN /\ offlineManuals' = NewSet(MapIds(result.manuals))
         /\ localStorage' = SaveOfflineManuals(offlineManuals')
         /\ reconciled' = TRUE
         /\ initPc' = "ready"
         /\ lastReturn' = NoReturn
         /\ UNCHANGED pendingDownloads
    ELSE LoadFailed

\* port1.onmessage resolves the promise with the reply; the caller goes on.
HandleReply(c) ==
    /\ calls[c].pc = "awaitReply"
    /\ calls[c].reply # NoReply
    /\ CASE calls[c].op = "download" ->
              DownloadReplied(calls[c].manualId, calls[c].reply)
         [] calls[c].op = "remove" ->
              RemoveReplied(calls[c].manualId, calls[c].reply)
         [] calls[c].op = "load" -> LoadReplied(calls[c].reply)
    /\ calls' = [calls EXCEPT ![c] = IdleCall]
    /\ UNCHANGED <<swRegistration, serviceWorkerFailed, updatePc, caches,
                   workerState, tasks>>
    /\ UNCHANGED outside

\* ------------------------------------------------------------------ init()
\* loadOfflineManuals up to its wait, offline-manager.js 410-424, entered by
\* init() with the registration and worker as they are then.
LoadOfflineManuals(registration, worker) ==
    /\ offlineManuals' = IF localStorage # NoItem
                         THEN NewSet(JSONParse(localStorage))
                         ELSE offlineManuals
    /\ IF SendOutcomeOf(registration, worker) = "reject"
       THEN /\ initPc' = "ready"
            /\ UNCHANGED <<calls, tasks>>
       ELSE /\ initPc' = "load"
            /\ SendMessageToSW(LoadSlot, [IdleCall EXCEPT !.op = "load"],
                               SendOutcomeOf(registration, worker))

\* init(), offline-manager.js 56-97.  outcome:
\*   "unsupported"  'serviceWorker' in navigator is false
\*   "throws"       insecure context, or register() rejects
\*   "registered"   register() resolves; waitForServiceWorkerReady is entered
InitRegister(outcome) ==
    /\ initPc = "register"
    /\ CASE outcome = "unsupported" ->
              /\ LoadOfflineManuals(FALSE, workerState)
              /\ UNCHANGED <<swRegistration, serviceWorkerFailed, workerState>>
         [] outcome = "throws" ->
              /\ serviceWorkerFailed' = TRUE
              /\ LoadOfflineManuals(FALSE, workerState)
              /\ UNCHANGED <<swRegistration, workerState>>
         [] outcome = "registered" ->
              /\ swRegistration' = TRUE
              /\ workerState' = IF workerState = "none" THEN "installing"
                                ELSE workerState
              /\ UNCHANGED serviceWorkerFailed
              /\ IF workerState' = "active"
                 THEN LoadOfflineManuals(TRUE, workerState')
                 ELSE /\ initPc' = IF workerState' = "installing" THEN "hung"
                                   ELSE "polling"
                      /\ UNCHANGED <<offlineManuals, calls, tasks>>
    /\ lastReturn' = NoReturn
    /\ UNCHANGED <<pendingDownloads, updatePc, reconciled, localStorage, caches>>
    /\ UNCHANGED outside

\* init()'s waitForServiceWorkerReady sees the active worker.
InitPollActive ==
    /\ initPc = "polling"
    /\ workerState = "active"
    /\ LoadOfflineManuals(TRUE, workerState)
    /\ lastReturn' = NoReturn
    /\ UNCHANGED <<swRegistration, serviceWorkerFailed, pendingDownloads,
                   updatePc, reconciled, localStorage, caches, workerState>>
    /\ UNCHANGED outside

\* init()'s waitForServiceWorkerReady times out: it throws (init's catch sets
\* serviceWorkerFailed) or, on iOS, returns false.
InitPollTimeout(isIOS) ==
    /\ initPc = "polling"
    /\ workerState # "active"
    /\ serviceWorkerFailed' = ~isIOS
    /\ LoadOfflineManuals(TRUE, workerState)
    /\ lastReturn' = NoReturn
    /\ UNCHANGED <<swRegistration, pendingDownloads, updatePc, reconciled,
                   localStorage, caches, workerState>>
    /\ UNCHANGED outside

\* ---------------------------------------------------------- performUpdate
RECURSIVE CacheDeleteAll(_, _)
CacheDeleteAll(store, names) ==
    IF names = <<>> THEN store
    ELSE CacheDeleteAll(CacheDelete(store, Head(names)), Tail(names))

\* performUpdate, offline-manager.js 597-638:
\*   const cacheNames = await caches.keys();
\*   await Promise.all(cacheNames.map(name => caches.delete(name)))
\* run in the page, not in the worker; then the reload timer is set.
PerformUpdate ==
    /\ updatePc = "idle"
    /\ caches' = CacheDeleteAll(caches, CacheKeys(caches))
    /\ tasks' = Detach(tasks, SeqToSet(CacheKeys(caches)))
    /\ updatePc' = "reload"
    /\ lastReturn' = NoReturn
    /\ UNCHANGED <<session, offlineManuals, pendingDownloads, calls,
                   localStorage, workerState>>
    /\ UNCHANGED outside

\* window.location.reload(), or the user loads the page again: a new
\* OfflineManager is constructed (offline-manager.js 7-19); the calls of the
\* old page are gone, the worker and the durable state stay.
Reload ==
    /\ swRegistration' = FALSE
    /\ serviceWorkerFailed' = FALSE
    /\ offlineManuals' = <<>>
    /\ pendingDownloads' = {}
    /\ initPc' = "register"
    /\ calls' = [c \in Slots |-> IdleCall]
    /\ updatePc' = "idle"
    /\ lastReturn' = NoReturn
    /\ reconciled' = FALSE
    /\ tasks' = {[t EXCEPT !.port = 0] : t \in tasks}
    /\ UNCHANGED <<localStorage, caches, workerState>>
    /\ UNCHANGED outside

\* ------------------------------------------------------------------ system
Next ==
    \/ \E outcome \in {"unsupported", "throws", "registered"} :
          InitRegister(outcome)
    \/ InitPollActive
    \/ \E isIOS \in BOOLEAN : InitPollTimeout(isIOS)
    \/ \E id \in CallIds : DownloadManual(id)
    \/ \E id \in PageManuals : RemoveManual(id)
    \/ \E id \in PageManuals : ToggleOfflineStatus(id)
    \/ \E c \in UserSlots, id \in PageManuals :
          \E files \in SUBSET PageFiles(id) : GetManualFiles(c, files)
    \/ \E c \in Slots : PollActive(c)
    \/ \E c \in Slots : PollTimeout(c)
    \/ \E c \in Slots : ResponseTimeout(c)
    \/ \E c \in Slots : HandleReply(c)
    \/ PerformUpdate
    \/ Reload
    \/ WorkerInstalled
    \/ WorkerActivate
    \/ \E t \in tasks : CacheManualOpen(t)
    \/ \E t \in tasks, ok \in BOOLEAN : CacheManualAddCore(t, ok)
    \/ \E t \in tasks, ok \in BOOLEAN : CacheManualAddFiles(t, ok)
    \/ \E t \in tasks : CacheManualPutMeta(t)
    \/ \E t \in tasks : SwRemoveManual(t)
    \/ \E t \in tasks : SwGetOfflineManualsKeys(t)
    \/ \E t \in tasks : SwGetOfflineManualsRead(t)

Spec == Init /\ [][Next]_vars

\* ------------------------------------------------------------ update check
\* Time is counted in a unit for which only the order of the two durations
\* matters: the readiness wait of sendMessageToSW is shorter than the hour of
\* the rate limit.
\* const oneHour = 60 * 60 * 1000
OneHour == 3
\* const timeout = isIOS ? 15000 : 10000
ReadyTimeout == 1
\* The last instant of the clock.
MaxTime == 6
\* checkForUpdates calls made on one page.
MaxChecks == 3
\* Timers for checkForUpdates pending at the same time.
MaxTimers == 2

\* One checkForUpdates call: when it was made, where it is, and when its
\* check-version message was posted (0: not posted).
\*   "skipped"     returned at once (offline, or within the hour)
\*   "rejected"    sendMessageToSW rejected before posting
\*   "polling", "hung"   in waitForServiceWorkerReady (see SendOutcomeOf)
\*   "awaitReply"  message posted
\*   "settled"     the reply or the 30 s timeout was handled
Check(at, pc, postedAt) == [at |-> at, pc |-> pc, postedAt |-> postedAt]

\* if (this.lastUpdateCheck && (now - this.lastUpdateCheck) < oneHour) return;
RateLimited(last, t) == last # 0 /\ t - last < OneHour

\* A page whose init() has run to its end (offline-manager.js 97-126): the
\* registration was made or not, a worker of this or an earlier load is in
\* any state, and with isOnline init has set two timers for checkForUpdates,
\* one in onOnlineStatusChanged (547-550) and one of its own (121-123).
UpdateInit ==
    /\ swRegistration \in BOOLEAN
    /\ workerState \in {"none", "installing", "installed", "active"}
    /\ swRegistration => workerState # "none"
    /\ serviceWorkerFailed = FALSE
    /\ offlineManuals = <<>>
    /\ pendingDownloads = {}
    /\ initPc = "ready"
    /\ calls = [c \in Slots |-> IdleCall]
    /\ updatePc = "idle"
    /\ lastReturn = NoReturn
    /\ reconciled = FALSE
    /\ localStorage = NoItem
    /\ caches = <<>>
    /\ tasks = {}
    /\ isOnline \in BOOLEAN
    /\ lastUpdateCheck = 0
    /\ now = 1
    /\ checkTimers = IF isOnline THEN 2 ELSE 0
    /\ checks = <<>>
    /\ NoFetch
    /\ NoClient
    /\ NoSearch

\* What a step of the update check leaves alone.
protocolAlone == <<swRegistration, serviceWorkerFailed, offlineManuals,
                   pendingDownloads, initPc, calls, updatePc, lastReturn,
                   reconciled, localStorage, caches, workerState, tasks,
                   fetchVars, searchVars, clientPorts>>

\* Time passes; a readiness wait that has reached its timeout ends first.
Tick ==
    /\ now < MaxTime
    /\ \A i \in 1..Len(checks) :
          checks[i].pc = "polling" => now - checks[i].at < ReadyTimeout
    /\ now' = now + 1
    /\ UNCHANGED <<protocolAlone, isOnline, lastUpdateCheck, checkTimers,
                   checks>>

\* window 'online' event (offline-manager.js 86-89) and onOnlineStatusChanged
\* (522-551): setTimeout(() => this.checkForUpdates(), 2000)
OnlineEvent ==
    /\ ~isOnline
    /\ checkTimers < MaxTimers
    /\ isOnline' = TRUE
    /\ checkTimers' = checkTimers + 1
    /\ UNCHANGED <<protocolAlone, lastUpdateCheck, now, checks>>

\* window 'offline' event (offline-manager.js 91-94)
OfflineEvent ==
    /\ isOnline
    /\ isOnline' = FALSE
    /\ UNCHANGED <<protocolAlone, lastUpdateCheck, now, checkTimers, checks>>

\* A timer fires: checkForUpdates (offline-manager.js 554-578) up to its
\* first wait inside sendMessageToSW('check-version').
CheckForUpdates ==
    /\ checkTimers > 0
    /\ Len(checks) < MaxChecks
    /\ checkTimers' = checkTimers - 1
    /\ IF ~isOnline \/ RateLimited(lastUpdateCheck, now)
       THEN /\ checks' = Append(checks, Check(now, "skipped", 0))
            /\ UNCHANGED lastUpdateCheck
       ELSE /\ lastUpdateCheck' = now
            /\ checks' = Append(checks,
                  CASE SendOutcome = "reject" -> Check(now, "rejected", 0)
                    [] SendOutcome = "post" -> Check(now, "awaitReply", now)
                    [] OTHER -> Check(now, SendOutcome, 0))
    /\ UNCHANGED <<protocolAlone, isOnline, now>>

\* The polling loop of waitForServiceWorkerReady sees registration.active
\* (offline-manager.js 352-367); the check-version message is posted.
CheckPollActive(i) ==
    /\ checks[i].pc = "polling"
    /\ workerState = "active"
    /\ checks' = [checks EXCEPT ![i] = Check(@.at, "awaitReply", now)]
    /\ UNCHANGED <<protocolAlone, isOnline, lastUpdateCheck, now, checkTimers>>

\* The polling loop ends at its timeout without an active worker; the promise
\* rejects and checkForUpdates' catch logs it.
CheckPollTimeout(i) ==
    /\ checks[i].pc = "polling"
    /\ workerState # "active"
    /\ now - checks[i].at >= ReadyTimeout
    /\ checks' = [checks EXCEPT ![i] = Check(@.at, "rejected", 0)]
    /\ UNCHANGED <<protocolAlone, isOnline, lastUpdateCheck, now, checkTimers>>

\* The worker's reply (sw.js 274-296) or the 30 s timeout is handled.
CheckSettled(i) ==
    /\ checks[i].pc = "awaitReply"
    /\ checks' = [checks EXCEPT ![i] = Check(@.at, "settled", @.postedAt)]
    /\ UNCHANGED <<protocolAlone, isOnline, lastUpdateCheck, now, checkTimers>>

UpdateNext ==
    \/ Tick
    \/ OnlineEvent
    \/ OfflineEvent
    \/ CheckForUpdates
    \/ \E i \in 1..Len(checks) : CheckPollActive(i)
    \/ \E i \in 1..Len(checks) : CheckPollTimeout(i)
    \/ \E i \in 1..Len(checks) : CheckSettled(i)
    \/ WorkerInstalled
    \/ WorkerActivate

UpdateSpec == UpdateInit /\ [][UpdateNext]_vars

\* ------------------------------------------- worker: lifecycle and fetch
\* const CACHE_VERSION = '1.0.2'; CORE_CACHE_NAME = `m113-core-${CACHE_VERSION}`
CacheVersion == "1.0.2"
CoreCacheName == [prefix |-> "m113-core-", rest |-> CacheVersion]
\* CORE_FILES: './', './index.html' and the style sheet, scripts and icons
IndexUrl == Url(NoId, "index", 0)
CoreFiles == {Url(NoId, "root", 0), IndexUrl, Url(NoId, "asset", 0)}

\* What the steps of the worker leave alone in the page.
pageOnlyButSearch == <<session, offlineManuals, pendingDownloads, updatePc,
                       localStorage, calls, lastReturn, updateVars,
                       clientPorts>>
pageOnly == <<pageOnlyButSearch, searchVars>>

\* install, sw.js 47-60: caches.open(CORE_CACHE_NAME), cache.addAll(CORE_FILES);
\* ok = FALSE: a fetch fails, addAll stores nothing and the catch logs it.
SwInstall(ok) ==
    /\ workerState = "installing"
    /\ caches' = IF ok
                 THEN CacheAddAll(CacheOpen(caches, CoreCacheName),
                                  CoreCacheName, CoreFiles)
                 ELSE CacheOpen(caches, CoreCacheName)
    /\ workerState' = "installed"
    /\ UNCHANGED <<pageOnly, tasks, fetchVars>>

\* An activate that keeps nothing but the current core cache.
StaleCache_Manuals(cacheName) == cacheName # CoreCacheName
\* activate, sw.js 69: the caches it deletes
StaleCache(cacheName) ==
    cacheName # CoreCacheName /\ ~StartsWithManual(cacheName)

\* The activate handler after caches.keys() resolved with `names`.
ActivateTask(names) ==
    [action |-> "activate", manualId |-> NoId, files |-> {}, port |-> 0,
     pc |-> "delete", live |-> FALSE, names |-> names, acc |-> <<>>]

\* activate, sw.js 63-66: the waiting worker is activated once the handlers
\* of the worker it replaces have finished; caches.keys()
SwActivateKeys ==
    /\ workerState = "installed"
    /\ tasks = {} /\ fetching = {}
    /\ workerState' = "activating"
    /\ tasks' = {ActivateTask(CacheKeys(caches))}
    /\ UNCHANGED <<pageOnly, caches, fetchVars>>

\* activate, sw.js 67-79: Promise.all(cacheNames.map(... caches.delete ...)),
\* then clients.claim()
SwActivateDelete(t) ==
    /\ t.action = "activate" /\ t.pc = "delete"
    /\ caches' = CacheDeleteAll(caches, SelectSeq(t.names, StaleCache))
    /\ FinishTask(t)
    /\ workerState' = "active"
    /\ UNCHANGED <<pageOnly, fetchVars>>

\* A message of a client reaches the active worker (sw.js 158-189); the
\* client is not followed, nobody waits at the other end of the port.
MessageEvent(action, id, files) ==
    /\ workerState = "active"
    /\ Cardinality(tasks) < MaxTasks
    /\ tasks' = tasks \cup {NewTask(action, id, files, 0)}
    /\ UNCHANGED <<pageOnly, caches, workerState, fetchVars>>

\* fetch, sw.js 84-119 -------------------------------------------------
\* Fetch handlers in progress at the same time.
MaxFetches == 1

\* The URLs asked for: the landing page, a manual's page, search index and
\* page images.
RequestUrls ==
    {IndexUrl} \cup
    UNION {{Url(id, "html", 0), Url(id, "search-index", 0)} \cup PageFiles(id) :
           id \in PageManuals}
Requests ==
    {Request(m, u, h) : m \in {"GET", "POST"}, u \in RequestUrls, h \in BOOLEAN}

\* The branch of the fetch listener a URL takes (sw.js 94-104):
\*   "manual"  pathname ends with .html, is not /index.html and not /
\*   "image"   pathname includes /pages/ and ends with .png
\*   "other"   everything else
UrlClass(url) ==
    IF url.kind = "html" THEN "manual"
    ELSE IF url.kind = "page" THEN "image"
    ELSE "other"

\* A lookup in the oldest cache of the store only.
CachesMatch_Oldest(store, url) ==
    store # <<>> /\ url \in store[1].entries
\* caches.match(request): some cache of the store holds the URL
CachesMatch(store, url) == \E i \in 1..Len(store) : url \in store[i].entries

\* A handler that puts what it fetched into the oldest cache.
StoreAfterFetch_Caches(store, url) ==
    IF store = <<>> THEN store
    ELSE [store EXCEPT ![1].entries = @ \cup {url}]
\* The store after fetch(request) resolved: the response is returned as it
\* is, nothing is put (sw.js 109, 128-129, 145-147).
StoreAfterFetch(store, url) == store

\* The fetch listener: a request that is not a GET is left to the browser,
\* any other starts with caches.match(request).
FetchEvent(request) ==
    /\ workerState = "active"
    /\ IF request.method # "GET"
       THEN /\ lastResponse' = Response("browser", request.url)
            /\ UNCHANGED fetching
       ELSE /\ Cardinality(fetching) < MaxFetches
            /\ fetching' = fetching \cup {[request |-> request, pc |-> "match"]}
            /\ lastResponse' = NoResponse
    /\ UNCHANGED <<pageOnly, caches, workerState, tasks>>

\* await caches.match(request): the cached response, or on to the network
FetchMatch(f) ==
    /\ f.pc = "match"
    /\ IF CachesMatch(caches, f.request.url)
       THEN /\ fetching' = fetching \ {f}
            /\ lastResponse' = Response("cache", f.request.url)
       ELSE /\ fetching' = (fetching \ {f}) \cup {[f EXCEPT !.pc = "network"]}
            /\ UNCHANGED lastResponse
    /\ UNCHANGED <<pageOnly, caches, workerState, tasks>>

\* await fetch(request); ok = FALSE: the network fails
\*   handleManualRequest (122-135): falls back to caches.match('./index.html')
\*   handleImageRequest  (138-155): answers 404
\*   other requests      (107-117): falls back to caches.match('./index.html')
\*                       when the accept header includes text/html
FetchNetwork(f, ok) ==
    /\ f.pc = "network"
    /\ IF ok
       THEN /\ caches' = StoreAfterFetch(caches, f.request.url)
            /\ fetching' = fetching \ {f}
            /\ lastResponse' = Response("network", f.request.url)
       ELSE /\ UNCHANGED caches
            /\ CASE UrlClass(f.request.url) = "image" ->
                      /\ fetching' = fetching \ {f}
                      /\ lastResponse' = Response("notFound", f.request.url)
                 [] UrlClass(f.request.url) = "other" /\ ~f.request.html ->
                      /\ fetching' = fetching \ {f}
                      /\ lastResponse' = Response("undefined", f.request.url)
                 [] OTHER ->
                      /\ fetching' = (fetching \ {f}) \cup
                                        {[f EXCEPT !.pc = "fallback"]}
                      /\ UNCHANGED lastResponse
    /\ UNCHANGED <<pageOnly, workerState, tasks>>

\* return caches.match('./index.html')
FetchFallback(f) ==
    /\ f.pc = "fallback"
    /\ fetching' = fetching \ {f}
    /\ lastResponse' = IF CachesMatch(caches, IndexUrl)
                       THEN Response("cache", IndexUrl)
                       ELSE Response("undefined", f.request.url)
    /\ UNCHANGED <<pageOnly, caches, workerState, tasks>>

\* The active worker of a page with no client followed: the core cache as
\* install left it.
FetchInit ==
    /\ swRegistration = FALSE
    /\ serviceWorkerFailed = FALSE
    /\ offlineManuals = <<>>
    /\ pendingDownloads = {}
    /\ initPc = "register"
    /\ calls = [c \in Slots |-> IdleCall]
    /\ updatePc = "idle"
    /\ lastReturn = NoReturn
    /\ reconciled = FALSE
    /\ localStorage = NoItem
    /\ \E ok \in BOOLEAN :
          caches = IF ok
                   THEN CacheAddAll(CacheOpen(<<>>, CoreCacheName),
                                    CoreCacheName, CoreFiles)
                   ELSE CacheOpen(<<>>, CoreCacheName)
    /\ workerState = "active"
    /\ tasks = {}
    /\ NoUpdateCheck
    /\ NoFetch
    /\ NoClient
    /\ NoSearch

FetchNext ==
    \/ \E id \in PageManuals :
          \E files \in SUBSET PageFiles(id) :
             MessageEvent("cache-manual", id, files)
    \/ \E id \in PageManuals : MessageEvent("remove-manual", id, {})
    \/ \E t \in tasks : CacheManualOpen(t)
    \/ \E t \in tasks, ok \in BOOLEAN : CacheManualAddCore(t, ok)
    \/ \E t \in tasks, ok \in BOOLEAN : CacheManualAddFiles(t, ok)
    \/ \E t \in tasks : CacheManualPutMeta(t)
    \/ \E t \in tasks : SwRemoveManual(t)
    \/ \E request \in Requests : FetchEvent(request)
    \/ \E f \in fetching : FetchMatch(f)
    \/ \E f \in fetching, ok \in BOOLEAN : FetchNetwork(f, ok)
    \/ \E f \in fetching : FetchFallback(f)

FetchSpec == FetchInit /\ [][FetchNext]_vars

\* ------------------------------------------------ worker: version upgrade
\* Caches in the store when a new worker is installed.
MaxStore == 3

\* What earlier versions of the worker and of the site can have left: the
\* core cache of this and of an older version, a cache with another name, a
\* downloaded manual and the empty cache of a failed download.
CoreCache(version) ==
    [name |-> [prefix |-> "m113-core-", rest |-> version],
     entries |-> CoreFiles, meta |-> NoMeta]
ForeignCache ==
    [name |-> [prefix |-> "", rest |-> "manuals"],
     entries |-> {IndexUrl}, meta |-> NoMeta]
ManualCache(id) ==
    [name |-> CacheNameOf(id),
     entries |-> ManualFiles(id) \cup PageFiles(id) \cup
                 {MetadataKey(CacheNameOf(id))},
     meta |-> Metadata(id, FileCount(id, PageFiles(id)))]
LeftCaches ==
    {CoreCache(CacheVersion), CoreCache("1.0.1"), ForeignCache,
     ManualCache("HRN113-001"), EmptyCache(CacheNameOf("HRN113-002"))}
\* The stores of at most MaxStore of them, in any order of creation.
LeftStores ==
    {store \in UNION {[1..n -> LeftCaches] : n \in 0..MaxStore} :
        \A i, j \in 1..Len(store) : i # j => store[i] # store[j]}

\* A new worker starts its installation over such a store; no page is
\* followed.
UpgradeInit ==
    /\ swRegistration = FALSE
    /\ serviceWorkerFailed = FALSE
    /\ offlineManuals = <<>>
    /\ pendingDownloads = {}
    /\ initPc = "register"
    /\ calls = [c \in Slots |-> IdleCall]
    /\ updatePc = "idle"
    /\ lastReturn = NoReturn
    /\ reconciled = FALSE
    /\ localStorage = NoItem
    /\ caches \in LeftStores
    /\ workerState = "installing"
    /\ tasks = {}
    /\ NoUpdateCheck
    /\ NoFetch
    /\ NoClient
    /\ NoSearch

UpgradeNext ==
    \/ \E ok \in BOOLEAN : SwInstall(ok)
    \/ SwActivateKeys
    \/ \E t \in tasks : SwActivateDelete(t)

UpgradeSpec == UpgradeInit /\ [][UpgradeNext]_vars

\* The same system with its timers and event loops running: a timer that is
\* due fires (the polling loop of waitForServiceWorkerReady, the 30 s timer
\* of sendMessageToSW), a reply that has arrived is handled, getManualFiles
\* comes to its end, and the worker goes on with every handler and with its
\* installation.  Nothing is assumed of the user or of page loads.
Fairness ==
    /\ \A c \in Slots : WF_vars(PollActive(c) \/ PollTimeout(c))
    /\ \A c \in Slots : WF_vars(HandleReply(c) \/ ResponseTimeout(c))
    /\ \A c \in UserSlots :
          WF_vars(\E id \in PageManuals :
                     \E files \in SUBSET PageFiles(id) : GetManualFiles(c, files))
    /\ WF_vars(InitPollActive \/ \E isIOS \in BOOLEAN : InitPollTimeout(isIOS))
    /\ WF_vars(WorkerInstalled)
    /\ WF_vars(WorkerActivate)
    /\ WF_vars(\E t \in tasks :
                  \/ CacheManualOpen(t)
                  \/ \E ok \in BOOLEAN : CacheManualAddCore(t, ok)
                  \/ \E ok \in BOOLEAN : CacheManualAddFiles(t, ok)
                  \/ CacheManualPutMeta(t)
                  \/ SwRemoveManual(t)
                  \/ SwGetOfflineManualsKeys(t)
                  \/ SwGetOfflineManualsRead(t))

FairSpec == Spec /\ Fairness

\* ------------------------------------------------------ worker: messages
\* The message listener and its four handlers (sw.js 158-296) for the
\* messages of a client that is not followed: clientPorts keeps, message by
\* message, the action and what was posted on the port that came with it.
\* Messages of one behaviour.
MaxMessages == 2

\* The port that came with message k.
ClientPort(k) == LoadSlot + k

\* The actions of the messages sent.
KnownActions ==
    {"cache-manual", "remove-manual", "check-version", "get-offline-manuals"}
ClientActions == KnownActions \cup {"skipWaiting", "ping"}

\* The message listener, sw.js 158-189: a known action starts its handler
\* with the port; 'skipWaiting' calls self.skipWaiting(), which changes
\* nothing in a worker that is active, and starts no handler; any other
\* action is answered at once on the port.
ClientMessage(action, id, files) ==
    /\ workerState = "active"
    /\ Len(clientPorts) < MaxMessages
    /\ LET k == Len(clientPorts) + 1 IN
       IF action \in KnownActions
       THEN /\ Cardinality(tasks) < MaxTasks
            /\ tasks' = tasks \cup {NewTask(action, id, files, ClientPort(k))}
            /\ clientPorts' = Append(clientPorts,
                                     [action |-> action, replies |-> <<>>])
       ELSE /\ UNCHANGED tasks
            /\ clientPorts' =
                  Append(clientPorts,
                         [action |-> action,
                          replies |-> IF action = "skipWaiting" THEN <<>>
                                      ELSE <<UnknownActionReply>>])
    /\ lastReturn' = NoReturn
    /\ UNCHANGED <<pageAlone, calls, caches>>

\* A checkForUpdates that posts nothing when its fetch fails.
SwCheckForUpdates_Silent(t, outcome) ==
    /\ t.action = "check-version" /\ t.pc = "fetch"
    /\ IF outcome = "throws"
       THEN UNCHANGED <<calls, clientPorts>>
       ELSE PostReply(t, CheckVersionReply(TRUE))
    /\ FinishTask(t)
    /\ lastReturn' = NoReturn
    /\ UNCHANGED <<pageAlone, caches>>
\* checkForUpdates, sw.js 274-296: fetch('/version.json?t=...')
\*   "ok"      the response is ok and its JSON is read: success: true
\*   "notOk"   the response is not ok: success: true, hasUpdate: false
\*   "throws"  the fetch or response.json() fails: success: false
SwCheckForUpdates(t, outcome) ==
    /\ t.action = "check-version" /\ t.pc = "fetch"
    /\ PostReply(t, CheckVersionReply(outcome # "throws"))
    /\ FinishTask(t)
    /\ lastReturn' = NoReturn
    /\ UNCHANGED <<pageAlone, caches>>

\* The catch block of a handler (sw.js 224-227, 239-242, 267-270, 291-295):
\* the operation it awaits throws (the store fails, a metadata entry is not
\* JSON), the handler posts { success: false, error } and ends.
FailureReply(t) ==
    [kind |-> t.action, success |-> FALSE, manualId |-> t.manualId,
     fileCount |-> 0, manuals |-> <<>>]
SwThrows(t) ==
    /\ t.action \in KnownActions
    /\ PostReply(t, FailureReply(t))
    /\ FinishTask(t)
    /\ lastReturn' = NoReturn
    /\ UNCHANGED <<pageAlone, caches>>

\* The stores an active worker can have: its core cache, the cache of a
\* downloaded manual, the empty cache that a failed download left.
MessageStores == {store \in LeftStores :
                     \A i \in 1..Len(store) : ~StaleCache(store[i].name)}

MessageInit ==
    /\ swRegistration = FALSE
    /\ serviceWorkerFailed = FALSE
    /\ offlineManuals = <<>>
    /\ pendingDownloads = {}
    /\ initPc = "register"
    /\ calls = [c \in Slots |-> IdleCall]
    /\ updatePc = "idle"
    /\ lastReturn = NoReturn
    /\ reconciled = FALSE
    /\ localStorage = NoItem
    /\ caches \in MessageStores
    /\ workerState = "active"
    /\ tasks = {}
    /\ NoUpdateCheck
    /\ NoFetch
    /\ NoClient
    /\ NoSearch

MessageNext ==
    \/ \E id \in PageManuals :
          \E files \in SUBSET PageFiles(id) :
             ClientMessage("cache-manual", id, files)
    \/ \E id \in PageManuals : ClientMessage("remove-manual", id, {})
    \/ \E action \in ClientActions \ {"cache-manual", "remove-manual"} :
          ClientMessage(action, NoId, {})
    \/ \E t \in tasks : CacheManualOpen(t)
    \/ \E t \in tasks, ok \in BOOLEAN : CacheManualAddCore(t, ok)
    \/ \E t \in tasks, ok \in BOOLEAN : CacheManualAddFiles(t, ok)
    \/ \E t \in tasks : CacheManualPutMeta(t)
    \/ \E t \in tasks : SwRemoveManual(t)
    \/ \E t \in tasks : SwGetOfflineManualsKeys(t)
    \/ \E t \in tasks : SwGetOfflineManualsRead(t)
    \/ \E t \in tasks, outcome \in {"ok", "notOk", "throws"} :
          SwCheckForUpdates(t, outcome)
    \/ \E t \in tasks : SwThrows(t)

MessageSpec == MessageInit /\ [][MessageNext]_vars

\* -------------------------------------------------- calls in flight together
\* A call of the page that overlaps the call still waiting in the slot of
\* init(): the reconciliation request of a page load, or a removeManual(id)
\* made on a page at rest.
\* The stores of a page at rest: the core cache, alone or with the cache of
\* the downloaded manual.
RestStores ==
    {<<CoreCache(CacheVersion)>>} \cup
    {<<CoreCache(CacheVersion), ManualCache(id)>> : id \in PageManuals}

\* The mirror that the last reconciliation wrote for a store
\* (offline-manager.js 425-428).
MirrorOf(store) == SaveOfflineManuals(NewSet(MapIds(GetOfflineManuals(store))))

\* The page is loaded over a store at rest with an active worker: init() is
\* about to register and to send get-offline-manuals (offline-manager.js
\* 56-97).
PageLoadInit ==
    /\ swRegistration = FALSE
    /\ offlineManuals = <<>>
    /\ initPc = "register"
    /\ calls = [c \in Slots |-> IdleCall]
    /\ reconciled = FALSE
    /\ caches \in RestStores
    /\ localStorage = MirrorOf(caches)
    /\ tasks = {}

\* On a reconciled page that holds id offline, removeManual(id) has posted
\* remove-manual and waits for the reply (offline-manager.js 215-222).
RemovePendingInit ==
    /\ swRegistration = TRUE
    /\ initPc = "ready"
    /\ reconciled = TRUE
    /\ \E id \in PageManuals :
          /\ caches = <<CoreCache(CacheVersion), ManualCache(id)>>
          /\ offlineManuals = NewSet(<<id>>)
          /\ calls = [c \in Slots |->
                        IF c = LoadSlot
                        THEN [IdleCall EXCEPT !.op = "remove",
                                              !.manualId = id,
                                              !.pc = "awaitReply"]
                        ELSE IdleCall]
          /\ tasks = {NewTask("remove-manual", id, {}, LoadSlot)}
    /\ localStorage = MirrorOf(caches)

\* What the two situations share: no call of the UI yet, nothing else going
\* on.
OverlapRest ==
    /\ serviceWorkerFailed = FALSE
    /\ pendingDownloads = {}
    /\ updatePc = "idle"
    /\ lastReturn = NoReturn
    /\ workerState = "active"
    /\ NoUpdateCheck
    /\ NoFetch
    /\ NoClient
    /\ NoSearch

\* The first call has posted its message and has not got its reply.
FirstCallWaits == calls[LoadSlot].pc = "awaitReply"

\* downloadManual is called only while the first call waits; cacheManual's
\* steps and the delivery of the replies come in every order.
OverlapDownload ==
    \/ \E id \in PageManuals : FirstCallWaits /\ DownloadManual(id)
    \/ \E c \in UserSlots, id \in PageManuals :
          \E files \in SUBSET PageFiles(id) : GetManualFiles(c, files)
    \/ \E c \in Slots : HandleReply(c)
    \/ \E t \in tasks : CacheManualOpen(t)
    \/ \E t \in tasks, ok \in BOOLEAN : CacheManualAddCore(t, ok)
    \/ \E t \in tasks, ok \in BOOLEAN : CacheManualAddFiles(t, ok)
    \/ \E t \in tasks : CacheManualPutMeta(t)

\* A download during the reconciliation of a page load.
LoadOverlapInit == PageLoadInit /\ OverlapRest
LoadOverlapNext ==
    \/ InitRegister("registered")
    \/ \E t \in tasks : SwGetOfflineManualsKeys(t)
    \/ \E t \in tasks : SwGetOfflineManualsRead(t)
    \/ OverlapDownload
LoadOverlapSpec == LoadOverlapInit /\ [][LoadOverlapNext]_vars

\* A download during a removal.
RemoveOverlapInit == RemovePendingInit /\ OverlapRest
RemoveOverlapNext ==
    \/ \E t \in tasks : SwRemoveManual(t)
    \/ OverlapDownload
RemoveOverlapSpec == RemoveOverlapInit /\ [][RemoveOverlapNext]_vars

\* ------------------------------------------------------------------ search
\* App.search, app.js 425-517.  A string is the sequence of its characters;
\* the characters of the model:
\*   "a" "b" "A"   letters of [a-zA-ZæøåÆØÅ]
\*   "1"           a character outside that class (digit, blank, punctuation)
QueryChars == {"a", "b", "A", "1"}
\* Characters of a query.
MaxQuery == 4
\* The highest page id of an occurrence (page ids count from 0).
MaxPageId == 1
\* Words of the index.
MaxWords == 2
\* Occurrences of one word.
MaxOccurrences == 2

\* The letters: a-z and æ ø å, and their capitals in the same order.
LowerLetters ==
    <<"a", "b", "c", "d", "e", "f", "g", "h", "i", "j", "k", "l", "m", "n",
      "o", "p", "q", "r", "s", "t", "u", "v", "w", "x", "y", "z", "æ", "ø",
      "å">>
UpperLetters ==
    <<"A", "B", "C", "D", "E", "F", "G", "H", "I", "J", "K", "L", "M", "N",
      "O", "P", "Q", "R", "S", "T", "U", "V", "W", "X", "Y", "Z", "Æ", "Ø",
      "Å">>
\* String.prototype.toLowerCase, by character
LowerOf ==
    [ch \in SeqToSet(UpperLetters) |->
        LowerLetters[CHOOSE i \in 1..Len(UpperLetters) : UpperLetters[i] = ch]]
LowerChar(ch) == IF ch \in DOMAIN LowerOf THEN LowerOf[ch] ELSE ch
ToLowerCase(str) == [i \in 1..Len(str) |-> LowerChar(str[i])]
\* [a-zA-ZæøåÆØÅ]
LetterClass == SeqToSet(LowerLetters) \cup SeqToSet(UpperLetters)
IsLetter(ch) == ch \in LetterClass

\* str.match(/[a-zA-ZæøåÆØÅ]+/g) || []: the maximal runs of letters, in order.
\* run: the letters of the run being read; found: the runs before it.
RECURSIVE MatchWordsFrom(_, _, _)
MatchWordsFrom(str, run, found) ==
    LET closed == IF run = <<>> THEN found ELSE Append(found, run) IN
    IF str = <<>> THEN closed
    ELSE IF IsLetter(Head(str))
         THEN MatchWordsFrom(Tail(str), Append(run, Head(str)), found)
         ELSE MatchWordsFrom(Tail(str), <<>>, closed)
MatchWords(str) == MatchWordsFrom(str, <<>>, <<>>)

\* String.prototype.startsWith / includes
StartsWith(str, prefix) ==
    Len(prefix) <= Len(str) /\ SubSeq(str, 1, Len(prefix)) = prefix
Includes(str, part) ==
    /\ Len(part) <= Len(str)
    /\ \E i \in 0..(Len(str) - Len(part)) :
          SubSeq(str, i + 1, i + Len(part)) = part

\* A search that takes query words of any length.
TooShort_Never(queryWord) == FALSE
\* if (queryWord.length < 3) continue
TooShort(queryWord) == Len(queryWord) < 3

\* Matching rules that give an equal word the weight of a word that starts
\* with the query word.
ScoreBonus_ExactAsPrefix(indexWord, queryWord) ==
    IF StartsWith(indexWord, queryWord) /\ Len(queryWord) >= 3 THEN 6
    ELSE IF StartsWith(queryWord, indexWord) /\ Len(indexWord) >= 3 THEN 4
    ELSE IF /\ Len(queryWord) >= 5 /\ Len(indexWord) >= 5
            /\ Includes(indexWord, queryWord)
            /\ 10 * Len(queryWord) >= 6 * Len(indexWord)
         THEN 2
    ELSE 0
\* Matching rules whose last rule does not compare the lengths.
ScoreBonus_AnyPart(indexWord, queryWord) ==
    IF indexWord = queryWord THEN 10
    ELSE IF StartsWith(indexWord, queryWord) /\ Len(queryWord) >= 3 THEN 6
    ELSE IF StartsWith(queryWord, indexWord) /\ Len(indexWord) >= 3 THEN 4
    ELSE IF /\ Len(queryWord) >= 5 /\ Len(indexWord) >= 5
            /\ Includes(indexWord, queryWord)
         THEN 2
    ELSE 0
\* The matching rules, app.js 443-467; 0: `continue`, the pair does not match
ScoreBonus(indexWord, queryWord) ==
    IF indexWord = queryWord THEN 10
    ELSE IF StartsWith(indexWord, queryWord) /\ Len(queryWord) >= 3 THEN 6
    ELSE IF StartsWith(queryWord, indexWord) /\ Len(indexWord) >= 3 THEN 4
    ELSE IF /\ Len(queryWord) >= 5 /\ Len(indexWord) >= 5
            /\ Includes(indexWord, queryWord)
            /\ 10 * Len(queryWord) >= 6 * Len(indexWord)
         THEN 2
    ELSE 0

\* pageMatches[pageId]
HasKey(pageMatches, pageId) ==
    \E i \in 1..Len(pageMatches.keys) : pageMatches.keys[i] = pageId
EntryOf(pageMatches, pageId) ==
    pageMatches.at[CHOOSE i \in 1..Len(pageMatches.keys) :
                      pageMatches.keys[i] = pageId]

\* for (const match of matches), app.js 471-486: each occurrence adds its page
\* to pageMatches if it is not there, then counts for it.  The loop taken as
\* a whole: the pages new to pageMatches are added in the order of their
\* first occurrence, and a page with n occurrences gets n times the bonus,
\* n times the word and, if the match is exact, n exact matches.
ScanMatches(pageMatches, matches, indexWord, scoreBonus) ==
    LET firsts == {n \in 1..Len(matches) :
                     /\ ~HasKey(pageMatches, matches[n].pageId)
                     /\ \A m \in 1..(n - 1) :
                           matches[m].pageId # matches[n].pageId}
        added == [k \in 1..Cardinality(firsts) |->
                    matches[CHOOSE n \in firsts :
                               Cardinality({m \in firsts : m < n}) = k - 1].pageId]
        keys == pageMatches.keys \o added
        before(i) == IF i <= Len(pageMatches.keys) THEN pageMatches.at[i]
                     ELSE [pageId |-> keys[i], score |-> 0,
                           matchedWords |-> <<>>, exactMatches |-> 0]
        times(i) == Cardinality({n \in 1..Len(matches) :
                                    matches[n].pageId = keys[i]})
    IN  [keys |-> keys,
         at |-> [i \in 1..Len(keys) |->
                   [before(i) EXCEPT
                      !.score = @ + times(i) * scoreBonus,
                      !.matchedWords = @ \o [n \in 1..times(i) |-> indexWord],
                      !.exactMatches = IF scoreBonus >= 10 THEN @ + times(i)
                                       ELSE @]]]

\* for (const indexWord of indexWords): words is the index in key order, each
\* element a word with its occurrences
RECURSIVE ScanWords(_, _, _)
ScanWords(pageMatches, words, queryWord) ==
    IF words = <<>> THEN pageMatches
    ELSE LET scoreBonus == ScoreBonus(Head(words).word, queryWord) IN
         ScanWords(IF scoreBonus = 0 THEN pageMatches
                   ELSE ScanMatches(pageMatches, Head(words).matches,
                                    Head(words).word, scoreBonus),
                   Tail(words), queryWord)

\* for (const queryWord of queryWords)
RECURSIVE ScanQuery(_, _, _)
ScanQuery(pageMatches, words, queryWords) ==
    IF queryWords = <<>> THEN pageMatches
    ELSE ScanQuery(IF TooShort(Head(queryWords)) THEN pageMatches
                   ELSE ScanWords(pageMatches, words, Head(queryWords)),
                   words, Tail(queryWords))

\* Object.keys(pageMatches): page ids are integers, and the integer keys of an
\* object are listed in ascending order whatever the order of insertion.
Ascending(ids) ==
    [k \in 1..Cardinality(ids) |->
        CHOOSE n \in ids : Cardinality({m \in ids : m < n}) = k - 1]
ObjectKeys(pageMatches) == Ascending(SeqToSet(pageMatches.keys))

\* A collection that counts an exact match 4 instead of 5.
Collect_LowBoost(pageMatches, pageIds, pageCount) ==
    LET all == [i \in 1..Len(pageIds) |->
                  LET match == EntryOf(pageMatches, pageIds[i]) IN
                  [pageId |-> match.pageId, score |-> match.score,
                   matchedWords |-> match.matchedWords,
                   exactMatches |-> match.exactMatches,
                   finalScore |-> match.score + match.exactMatches * 4]]
    IN  SelectSeq(all, LAMBDA result :
                          result.pageId < pageCount /\ result.score >= 4)
\* app.js 492-510: of the ids in key order, the pages that exist and have
\* score >= 4, each with its finalScore
Collect(pageMatches, pageIds, pageCount) ==
    LET all == [i \in 1..Len(pageIds) |->
                  LET match == EntryOf(pageMatches, pageIds[i]) IN
                  [pageId |-> match.pageId, score |-> match.score,
                   matchedWords |-> match.matchedWords,
                   exactMatches |-> match.exactMatches,
                   finalScore |-> match.score + match.exactMatches * 5]]
    IN  SelectSeq(all, LAMBDA result :
                          result.pageId < pageCount /\ result.score >= 4)

\* A search that returns the results as collected.
SortByFinalScore_Unsorted(results) == results
\* results.sort((a, b) => b.finalScore - a.finalScore): stable, so an
\* element comes behind those that score more and those before it that score
\* the same
SortByFinalScore(results) ==
    LET place(i) ==
           Cardinality({j \in 1..Len(results) :
                           \/ results[j].finalScore > results[i].finalScore
                           \/ /\ results[j].finalScore = results[i].finalScore
                              /\ j < i}) + 1
    IN  [k \in 1..Len(results) |->
           results[CHOOSE i \in 1..Len(results) : place(i) = k]]

\* A slice that keeps the whole array.
Slice_Whole(array, begin, end) == array
\* Array.prototype.slice(begin, end), 0 <= begin <= end
Slice(array, begin, end) ==
    SubSeq(array, begin + 1, IF Len(array) < end THEN Len(array) ELSE end)

\* app.js 426-490: pageMatches when the scan of the query is over
PageMatchesOf(index, query) ==
    IF ~index.loaded THEN NoPageMatches
    ELSE ScanQuery(NoPageMatches, index.words, MatchWords(ToLowerCase(query)))

\* search(query), app.js 425-517
Search(index, pageCount, query) ==
    IF ~index.loaded THEN <<>>
    ELSE LET pageMatches == PageMatchesOf(index, query)
             results == Collect(pageMatches, ObjectKeys(pageMatches), pageCount)
             kept == SelectSeq(SortByFinalScore(results),
                               LAMBDA result : result.finalScore >= 6)
         IN  Slice(kept, 0, 20)

\* The inputs: queries, indexes and page lists.
RECURSIVE StringsUpTo(_, _)
StringsUpTo(chars, n) ==
    IF n = 0 THEN {<<>>}
    ELSE LET shorter == StringsUpTo(chars, n - 1) IN
         shorter \cup {Append(str, ch) : str \in shorter, ch \in chars}
Queries == StringsUpTo(QueryChars, MaxQuery)
\* Index words are lower-case letters; one too short to match is among them.
IndexWords == {<<"a", "a">>, <<"a", "a", "b">>, <<"a", "a", "b", "a">>}
PageIds == 0..MaxPageId
Occurrences ==
    {[i \in 1..Len(ids) |-> [pageId |-> ids[i]]] :
        ids \in UNION {[1..n -> PageIds] : n \in 1..MaxOccurrences}}
IndexEntries == {[word |-> w, matches |-> m] : w \in IndexWords, m \in Occurrences}
\* The loaded indexes: at most MaxWords words, each once, in any key order.
Indexes ==
    {[loaded |-> TRUE, words |-> words] :
        words \in {ws \in UNION {[1..n -> IndexEntries] : n \in 0..MaxWords} :
                     \A i, j \in 1..Len(ws) : i # j => ws[i].word # ws[j].word}}

\* An App with its index loaded or not and its page list, no page followed
\* and no worker.
SearchInit ==
    /\ swRegistration = FALSE
    /\ serviceWorkerFailed = FALSE
    /\ offlineManuals = <<>>
    /\ pendingDownloads = {}
    /\ initPc = "register"
    /\ calls = [c \in Slots |-> IdleCall]
    /\ updatePc = "idle"
    /\ lastReturn = NoReturn
    /\ reconciled = FALSE
    /\ localStorage = NoItem
    /\ caches = <<>>
    /\ workerState = "none"
    /\ tasks = {}
    /\ NoUpdateCheck
    /\ NoFetch
    /\ NoClient
    /\ searchIndex \in Indexes \cup {NoIndex}
    /\ pages \in 0..(MaxPageId + 1)
    /\ searched = NotSearched
    /\ NoExcerpt

\* handleSearch calls this.search(query) (app.js 406-417); search reads the
\* index and the pages and writes nothing, so one call from each App is
\* followed.
DoSearch(query) ==
    /\ ~searched.done
    /\ searched' = [done |-> TRUE, query |-> query,
                    pageMatches |-> PageMatchesOf(searchIndex, query),
                    results |-> Search(searchIndex, pages, query)]
    /\ UNCHANGED <<pageOnlyButSearch, caches, workerState, tasks, fetchVars,
                   searchIndex, pages, extracted, highlighted>>

SearchNext == \E query \in Queries : DoSearch(query)

SearchSpec == SearchInit /\ [][SearchNext]_vars

\* ------------------------------------------- search: more pages than fit
\* The highest page id of the long occurrence lists.
MaxManyPages == 22

\* The occurrences of a word on the pages lo..hi, one each, in page order or
\* in the reverse order.
PageRun(lo, hi) == [i \in 1..(hi - lo + 1) |-> [pageId |-> lo + i - 1]]
Reversed(array) == [i \in 1..Len(array) |-> array[Len(array) + 1 - i]]
ManyOccurrences ==
    UNION {{PageRun(run[1], run[2]), Reversed(PageRun(run[1], run[2]))} :
              run \in {r \in {0, 21} \X {9, 20, MaxManyPages} :
                          r[1] <= r[2]}}
ManyWords == {<<"a", "a", "b">>, <<"a", "a", "b", "a">>}
\* The loaded indexes: one or two words, each on a run of pages.
ManyIndexes ==
    {[loaded |-> TRUE, words |-> words] :
        words \in {ws \in UNION {[1..n -> {[word |-> w, matches |-> m] :
                                            w \in ManyWords,
                                            m \in ManyOccurrences}] :
                                    n \in 1..2} :
                     \A i, j \in 1..Len(ws) : i # j => ws[i].word # ws[j].word}}
\* Queries of letters only.
ManyQueries == StringsUpTo({"a", "b"}, MaxQuery)

\* An App whose index has words on up to MaxManyPages + 1 pages; the page
\* list has 20 pages, 21 or all of them.
ManyInit ==
    /\ swRegistration = FALSE
    /\ serviceWorkerFailed = FALSE
    /\ offlineManuals = <<>>
    /\ pendingDownloads = {}
    /\ initPc = "register"
    /\ calls = [c \in Slots |-> IdleCall]
    /\ updatePc = "idle"
    /\ lastReturn = NoReturn
    /\ reconciled = FALSE
    /\ localStorage = NoItem
    /\ caches = <<>>
    /\ workerState = "none"
    /\ tasks = {}
    /\ NoUpdateCheck
    /\ NoFetch
    /\ NoClient
    /\ searchIndex \in ManyIndexes
    /\ pages \in {20, 21, MaxManyPages + 1}
    /\ searched = NotSearched
    /\ NoExcerpt

ManyNext == \E query \in ManyQueries : DoSearch(query)

ManySpec == ManyInit /\ [][ManyNext]_vars

\* ------------------------------------------------- search: words of a manual
\* Words as the manuals have them (the examples of app.js 711-715), longer
\* than the rules' thresholds of 3 and 5 letters.
\* "udstødning", "udstødningsrør"
Udstoedning == <<"u", "d", "s", "t", "ø", "d", "n", "i", "n", "g">>
Udstoedningsroer == Udstoedning \o <<"s", "r", "ø", "r">>
\* The index words: "motor", "motoren", "udstødning" and "ud", too short for
\* the rule of app.js 454.
ManualWords ==
    {<<"m", "o", "t", "o", "r">>, <<"m", "o", "t", "o", "r", "e", "n">>,
     Udstoedning, <<"u", "d">>}
\* The words typed: "motor", "Motor", "motoren", "udstødningsrør", "mo", and
\* the inner parts "otore" (of "motoren"), "stødni" and "dstød" (of
\* "udstødning": 6 and 5 letters of 10).
TypedWords ==
    {<<"m", "o", "t", "o", "r">>, <<"M", "o", "t", "o", "r">>,
     <<"m", "o", "t", "o", "r", "e", "n">>, Udstoedningsroer, <<"m", "o">>,
     <<"o", "t", "o", "r", "e">>, <<"s", "t", "ø", "d", "n", "i">>,
     <<"d", "s", "t", "ø", "d">>}
\* The queries: one typed word, or two with a blank between them.
TypedQueries ==
    TypedWords \cup {first \o <<" ">> \o second :
                        first \in TypedWords, second \in TypedWords}
\* The loaded indexes: at most MaxWords words, each once, in any key order.
ManualIndexes ==
    {[loaded |-> TRUE, words |-> words] :
        words \in {ws \in UNION {[1..n -> {[word |-> w, matches |-> m] :
                                            w \in ManualWords,
                                            m \in Occurrences}] :
                                    n \in 0..MaxWords} :
                     \A i, j \in 1..Len(ws) : i # j => ws[i].word # ws[j].word}}

\* An App with such an index and its page list.
WordInit ==
    /\ swRegistration = FALSE
    /\ serviceWorkerFailed = FALSE
    /\ offlineManuals = <<>>
    /\ pendingDownloads = {}
    /\ initPc = "register"
    /\ calls = [c \in Slots |-> IdleCall]
    /\ updatePc = "idle"
    /\ lastReturn = NoReturn
    /\ reconciled = FALSE
    /\ localStorage = NoItem
    /\ caches = <<>>
    /\ workerState = "none"
    /\ tasks = {}
    /\ NoUpdateCheck
    /\ NoFetch
    /\ NoClient
    /\ searchIndex \in ManualIndexes
    /\ pages \in 0..(MaxPageId + 1)
    /\ searched = NotSearched
    /\ NoExcerpt

WordNext == \E query \in TypedQueries : DoSearch(query)

WordSpec == WordInit /\ [][WordNext]_vars

\* ------------------------------------------------------- context extractor
\* getSearchContext, app.js 519-572.
\* 'Ingen kontekst tilgængelig'
Sentinel == <<"I", "n", "g", "e", "n", " ", "k", "o", "n", "t", "e", "k", "s",
    "t", " ", "t", "i", "l", "g", "æ", "n", "g", "e", "l", "i", "g">>
Dots == <<".", ".", ".">>
\* The window of the scan, its step, and the slice around the best window.
WindowLength == 100
WindowStep == 10
SliceLead == 25
SliceSpan == 125
\* The longest text.
MaxText == 130

\* \w: [A-Za-z0-9_], the letters without æ ø å
WordClass ==
    {LowerLetters[i] : i \in 1..26} \cup {UpperLetters[i] : i \in 1..26}
       \cup {"0", "1", "2", "3", "4", "5", "6", "7", "8", "9", "_"}
IsWordChar(ch) == ch \in WordClass
\* str.match(/\w+/g) || []: the maximal runs of \w characters, in order
RECURSIVE MatchWordCharsFrom(_, _, _)
MatchWordCharsFrom(str, run, found) ==
    LET closed == IF run = <<>> THEN found ELSE Append(found, run) IN
    IF str = <<>> THEN closed
    ELSE IF IsWordChar(Head(str))
         THEN MatchWordCharsFrom(Tail(str), Append(run, Head(str)), found)
         ELSE MatchWordCharsFrom(Tail(str), <<>>, closed)
MatchWordChars(str) == MatchWordCharsFrom(str, <<>>, <<>>)

\* String.prototype.substring(start, end), 0 <= start <= end
Substring(str, start, end) ==
    SubSeq(str, start + 1, IF Len(str) < end THEN Len(str) ELSE end)

\* A test that takes every text.
NoText_Never(text) == FALSE
\* !text
NoText(text) == text = <<>>

\* app.js 530-536: the words of the query the window includes, each element
\* of the array counted
WindowScore(window, queryWords) ==
    Cardinality({k \in 1..Len(queryWords) : Includes(window, queryWords[k])})

\* The first pass, app.js 529-543, from offset i with the best so far
RECURSIVE FirstPass(_, _, _, _)
FirstPass(textLower, queryWords, i, best) ==
    IF i > Len(textLower) - WindowLength THEN best
    ELSE LET score ==
                WindowScore(Substring(textLower, i, i + WindowLength),
                            queryWords) IN
         FirstPass(textLower, queryWords, i + WindowStep,
                   IF score > best.score THEN [index |-> i, score |-> score]
                   ELSE best)

\* app.js 551-557: some rest of the window includes the first three letters
\* of some word of the query
PartialIn(window, queryWords) ==
    \E k \in 1..Len(queryWords) :
       \E j \in 0..(Len(window) - 3) :
          Includes(Substring(window, j, Len(window)),
                   Substring(queryWords[k], 0, 3))

\* The second pass, app.js 547-562, from offset i: the offset of the first
\* window with a partial match, or bestIndex as it was (0)
RECURSIVE SecondPass(_, _, _)
SecondPass(textLower, queryWords, i) ==
    IF i > Len(textLower) - WindowLength THEN 0
    ELSE IF PartialIn(Substring(textLower, i, i + WindowLength), queryWords)
         THEN i
         ELSE SecondPass(textLower, queryWords, i + WindowStep)

\* Ellipses that take a slice reaching the end of the text as cut.
WithEllipsis_AtEnd(context, start, end, length) ==
    (IF start > 0 THEN Dots ELSE <<>>) \o context
       \o (IF end <= length THEN Dots ELSE <<>>)
\* app.js 568-569
WithEllipsis(context, start, end, length) ==
    (IF start > 0 THEN Dots ELSE <<>>) \o context
       \o (IF end < length THEN Dots ELSE <<>>)

\* getSearchContext(text, query): bestIndex after the first pass and at the
\* end, and the string returned
GetSearchContext(text, query) ==
    IF NoText(text)
    THEN [firstIndex |-> 0, bestIndex |-> 0, context |-> Sentinel]
    ELSE LET queryWords == MatchWordChars(ToLowerCase(query))
             textLower == ToLowerCase(text)
             first == FirstPass(textLower, queryWords, 0,
                                [index |-> 0, score |-> 0])
             bestIndex == IF first.score = 0
                          THEN SecondPass(textLower, queryWords, 0)
                          ELSE first.index
             start == IF bestIndex - SliceLead > 0 THEN bestIndex - SliceLead
                      ELSE 0
             end == IF Len(text) < bestIndex + SliceSpan THEN Len(text)
                    ELSE bestIndex + SliceSpan
         IN  [firstIndex |-> first.index, bestIndex |-> bestIndex,
              context |-> WithEllipsis(Substring(text, start, end), start, end,
                                       Len(text))]

\* The inputs.  A text is blanks with words put at some offsets.
\* "abc", "bca", "blå", "bly", "ABC"
TextWords == {<<"a", "b", "c">>, <<"b", "c", "a">>, <<"b", "l", "å">>, <<"b",
    "l", "y">>, <<"A", "B", "C">>}
TextOffsets == {0, 60, 105}
TextLengths == {0, 1, 99, 100, 109, 110, MaxText}
\* At most two words, at different offsets.
Placements ==
    {places \in SUBSET (TextOffsets \X TextWords) :
        /\ Cardinality(places) <= 2
        /\ \A p, q \in places : p[1] = q[1] => p = q}
TextOf(length, places) ==
    [k \in 1..length |->
        IF \E p \in places : p[1] < k /\ k <= p[1] + Len(p[2])
        THEN LET p == CHOOSE q \in places : q[1] < k /\ k <= q[1] + Len(q[2])
             IN  p[2][k - p[1]]
        ELSE " "]
Texts ==
    UNION {{TextOf(length, places) :
              places \in {ps \in Placements :
                             \A p \in ps : p[1] + Len(p[2]) <= length}} :
           length \in TextLengths}
\* The queries: "", "abc", "bca", "ABC", "abc bca", "abc bca bca", "blå",
\* "abcd", "bca_abc", "bly1", "xyz"
ContextQueries == {<<>>, <<"a", "b", "c">>, <<"b", "c", "a">>, <<"A", "B",
    "C">>, <<"a", "b", "c", " ", "b", "c", "a">>, <<"a", "b", "c", " ", "b",
    "c", "a", " ", "b", "c", "a">>, <<"b", "l", "å">>, <<"a", "b", "c", "d">>,
    <<"b", "c", "a", "_", "a", "b", "c">>, <<"b", "l", "y", "1">>, <<"x", "y",
    "z">>}


\* An App that has rendered nothing yet.
ContextInit ==
    /\ swRegistration = FALSE
    /\ serviceWorkerFailed = FALSE
    /\ offlineManuals = <<>>
    /\ pendingDownloads = {}
    /\ initPc = "register"
    /\ calls = [c \in Slots |-> IdleCall]
    /\ updatePc = "idle"
    /\ lastReturn = NoReturn
    /\ reconciled = FALSE
    /\ localStorage = NoItem
    /\ caches = <<>>
    /\ workerState = "none"
    /\ tasks = {}
    /\ NoUpdateCheck
    /\ NoFetch
    /\ NoClient
    /\ NoSearch

\* search calls this.getSearchContext(match.context || '', query) for each
\* page it collects (app.js 500); the function reads its arguments only, so
\* one call is followed.
ExtractContext(text, query) ==
    /\ ~extracted.done
    /\ LET got == GetSearchContext(text, query) IN
       extracted' = [done |-> TRUE, text |-> text, query |-> query,
                     firstIndex |-> got.firstIndex,
                     bestIndex |-> got.bestIndex, context |-> got.context]
    /\ UNCHANGED <<pageOnlyButSearch, caches, workerState, tasks, fetchVars,
                   searchIndex, pages, searched, highlighted>>

ContextNext ==
    \E text \in Texts, query \in ContextQueries : ExtractContext(text, query)

ContextSpec == ContextInit /\ [][ContextNext]_vars

\* -------------------------------------------------------------- highlighter
\* highlightText, app.js 687-741.
\* '<span class="highlight">' and '</span>'
MarkOpen == <<"<", "s", "p", "a", "n", " ", "c", "l", "a", "s", "s", "=",
    "\"", "h", "i", "g", "h", "l", "i", "g", "h", "t", "\"", ">">>
MarkClose == <<"<", "/", "s", "p", "a", "n", ">">>
\* The most words in a text.
MaxTextWords == 3

\* Rules that take a part in one direction only: the text word has the
\* query word in it.
Highlightable_OneWay(textWordLower, queryWord) ==
    \/ textWordLower = queryWord
    \/ StartsWith(textWordLower, queryWord) /\ Len(queryWord) >= 3
    \/ StartsWith(queryWord, textWordLower) /\ Len(textWordLower) >= 3
    \/ /\ Len(queryWord) >= 5 /\ Len(textWordLower) >= 5
       /\ Includes(textWordLower, queryWord)
       /\ 10 * Len(queryWord) >= 6 * Len(textWordLower)
\* app.js 705-723: the text word (in lower case) is to be highlighted for the
\* query word
Highlightable(textWordLower, queryWord) ==
    \/ textWordLower = queryWord
    \/ StartsWith(textWordLower, queryWord) /\ Len(queryWord) >= 3
    \/ StartsWith(queryWord, textWordLower) /\ Len(textWordLower) >= 3
    \/ /\ Len(queryWord) >= 5 /\ Len(textWordLower) >= 5
       /\ \/ Includes(textWordLower, queryWord)
          \/ Includes(queryWord, textWordLower)
       /\ LET shorter == IF Len(queryWord) < Len(textWordLower)
                         THEN Len(queryWord) ELSE Len(textWordLower)
              longer == IF Len(queryWord) < Len(textWordLower)
                        THEN Len(textWordLower) ELSE Len(queryWord)
          IN  10 * shorter >= 6 * longer

\* app.js 695-737: wordsToHighlight, a Set filled in the order query word by
\* query word, text word by text word, then sorted by length, longest first
\* (the sort is stable).  at(word): when the word entered the Set.
SortedWords(text, query) ==
    LET queryWords == MatchWords(ToLowerCase(query))
        textWords == MatchWords(text)
        hits == {pair \in (1..Len(queryWords)) \X (1..Len(textWords)) :
                    /\ ~TooShort(queryWords[pair[1]])
                    /\ Highlightable(ToLowerCase(textWords[pair[2]]),
                                     queryWords[pair[1]])}
        words == {textWords[pair[2]] : pair \in hits}
        at(word) ==
           LET first == CHOOSE pair \in hits :
                           /\ textWords[pair[2]] = word
                           /\ \A other \in hits :
                                 textWords[other[2]] = word =>
                                    \/ pair[1] < other[1]
                                    \/ pair[1] = other[1] /\ pair[2] <= other[2]
           IN  first[1] * (Len(textWords) + 1) + first[2]
        ahead(word) ==
           {other \in words :
               \/ Len(other) > Len(word)
               \/ Len(other) = Len(word) /\ at(other) < at(word)}
    IN  [k \in 1..Cardinality(words) |->
           CHOOSE word \in words : Cardinality(ahead(word)) = k - 1]

\* The matches of the regular expression of app.js 733 in str, flags g and i:
\* the places where the word stands, in any letter case, with no letter
\* right before or right after it.  Two matches cannot overlap.
MatchesOf(str, word) ==
    {p \in 1..(Len(str) - Len(word) + 1) :
        /\ ToLowerCase(SubSeq(str, p, p + Len(word) - 1)) = ToLowerCase(word)
        /\ p = 1 \/ ~IsLetter(str[p - 1])
        /\ p + Len(word) > Len(str) \/ ~IsLetter(str[p + Len(word)])}

\* str with the n characters at each of the places wrapped in the marker
\* (app.js 739); the places are taken from the last to the first.
RECURSIVE WrapAt(_, _, _)
WrapAt(str, places, n) ==
    IF places = {} THEN str
    ELSE LET p == CHOOSE q \in places : \A r \in places : r <= q IN
         WrapAt(SubSeq(str, 1, p - 1) \o MarkOpen \o SubSeq(str, p, p + n - 1)
                   \o MarkClose \o SubSeq(str, p + n, Len(str)),
                places \ {p}, n)

\* highlightedText.replace(regex, ...), app.js 734-740: a match is a run of
\* letters and never includes the marker, so every match is wrapped
ReplaceWord(str, word) == WrapAt(str, MatchesOf(str, word), Len(word))

\* for (const word of sortedWords)
RECURSIVE ReplaceWords(_, _)
ReplaceWords(str, words) ==
    IF words = <<>> THEN str
    ELSE ReplaceWords(ReplaceWord(str, Head(words)), Tail(words))

\* highlightText(text, query)
HighlightText(text, query) ==
    IF text = <<>> \/ query = <<>> THEN text
    ELSE ReplaceWords(text, SortedWords(text, query))

\* The inputs: texts of one to MaxTextWords words with blanks between them,
\* the words "motor", "Motor", "motoren", "mo", "span", "class", "highlight",
\* "otore".
HighlightWords == {<<"m", "o", "t", "o", "r">>, <<"M", "o", "t", "o", "r">>,
    <<"m", "o", "t", "o", "r", "e", "n">>, <<"m", "o">>, <<"s", "p", "a",
    "n">>, <<"c", "l", "a", "s", "s">>, <<"h", "i", "g", "h", "l", "i", "g",
    "h", "t">>, <<"o", "t", "o", "r", "e">>}
RECURSIVE Join(_)
Join(words) ==
    IF Len(words) = 1 THEN words[1]
    ELSE words[1] \o <<" ">> \o Join(Tail(words))
HighlightTexts ==
    {<<>>} \cup {Join(words) :
                    words \in UNION {[1..n -> HighlightWords] :
                                        n \in 1..MaxTextWords}}
\* The queries: "", "motor", "MOTOR", "motoren", "span", "class",
\* "span motor", "highlight motor", "mo", "otore"
HighlightQueries == {<<>>, <<"m", "o", "t", "o", "r">>, <<"M", "O", "T", "O",
    "R">>, <<"m", "o", "t", "o", "r", "e", "n">>, <<"s", "p", "a", "n">>,
    <<"c", "l", "a", "s", "s">>, <<"s", "p", "a", "n", " ", "m", "o", "t",
    "o", "r">>, <<"h", "i", "g", "h", "l", "i", "g", "h", "t", " ", "m", "o",
    "t", "o", "r">>, <<"m", "o">>, <<"o", "t", "o", "r", "e">>}

\* displaySearchResults renders each result's context with
\* this.highlightText(result.context, query) (app.js 574-595); the function
\* reads its arguments only, so one call is followed.
Highlight(text, query) ==
    /\ ~highlighted.done
    /\ highlighted' = [done |-> TRUE, text |-> text, query |-> query,
                       words |-> IF text = <<>> \/ query = <<>> THEN <<>>
                                 ELSE SortedWords(text, query),
                       html |-> HighlightText(text, query)]
    /\ UNCHANGED <<pageOnlyButSearch, caches, workerState, tasks, fetchVars,
                   searchIndex, pages, searched, extracted>>

HighlightNext ==
    \E text \in HighlightTexts, query \in HighlightQueries :
       Highlight(text, query)

HighlightSpec == ContextInit /\ [][HighlightNext]_vars

\* ------------------------------------------------------------ terminology
\* A downloadManual(id) / removeManual(id) call has passed its guards and has
\* not returned.
DownloadInFlight(id) ==
    \E c \in UserSlots : calls[c].op = "download" /\ calls[c].manualId = id
RemoveInFlight(id) ==
    \E c \in UserSlots : calls[c].op = "remove" /\ calls[c].manualId = id

\* The step is a call of op(id) that returns before its first await: a return
\* is observed and no call record changes.
ImmediateReturn(op, id) ==
    /\ lastReturn'.op = op /\ lastReturn'.manualId = id
    /\ calls' = calls

\* The step is one of call c's own (or the worker's reply reaching it); a page
\* load, which discards the call, is not.
CallStep(c) == calls'[c] # calls[c] /\ ~Reload
\* The step handles the worker's reply success: true for call c.
SuccessHandled(c) == HandleReply(c) /\ calls[c].reply.success

\* The ids the mirror holds (none when the item is missing).
MirrorIds == IF localStorage = NoItem THEN <<>> ELSE JSONParse(localStorage)

\* The durable store holds a non-empty cache manual-<id> with its metadata.
TaggedCache(id) ==
    /\ CacheHas(caches, CacheNameOf(id))
    /\ LET cache == CacheGet(caches, CacheNameOf(id)) IN
       cache.entries # {} /\ cache.meta.stored

\* No call of the page is in flight, init() has finished (its reconciliation
\* took the worker's list), no update is under way and the worker is idle.
Quiescent ==
    /\ \A c \in Slots : calls[c] = IdleCall
    /\ initPc = "ready" /\ reconciled
    /\ updatePc = "idle"
    /\ tasks = {}

\* Records of a get-offline-manuals list that carry id.
RecordsOf(list, id) == {i \in 1..Len(list) : list[i].id = id}

\* ------------------------------------------------------------------ claims
C1_SecondCall(id) ==
    /\ DownloadManual(id)
    /\ lastReturn' = Returned("download", id, FALSE)
    /\ UNCHANGED <<calls, tasks, pendingDownloads>>

\* C1: a downloadManual(id) made while an earlier downloadManual(id) has not
\* returned can always be made and then returns false at once, posts no
\* message to the worker and leaves pendingDownloads (with id in it) as it
\* is; no second download of id is ever in flight.
C1_SecondDownloadReturnsFalse ==
    [][\A id \in CallIds :
         DownloadInFlight(id) =>
           /\ ENABLED C1_SecondCall(id)
           /\ ImmediateReturn("download", id) =>
                /\ lastReturn'.value = FALSE
                /\ tasks' = tasks
                /\ pendingDownloads' = pendingDownloads
                /\ id \in pendingDownloads'
           /\ Cardinality({c \in UserSlots : calls'[c].op = "download"
                                             /\ calls'[c].manualId = id}) <= 1
      ]_vars

C1_Witness ==
    \E id \in PageManuals :
        /\ DownloadInFlight(id)
        /\ lastReturn = Returned("download", id, FALSE)
        /\ id \in pendingDownloads

\* C2: in every quiescent state a manual id is in the offline set exactly
\* when the store holds a non-empty cache manual-<id> with its metadata.
\* (Violated.)
C2_OfflineIffTaggedCache ==
    Quiescent => \A id \in ManualIds : SetHas(offlineManuals, id) <=> TaggedCache(id)

\* C3: for a downloadManual(id) past its guards: handling a success reply
\* returns true with id in the offline set and in the mirror; every other
\* step of the call leaves the set and the mirror alone, and when it ends the
\* call (file list throws, failure reply, timeout) the call returns false.
C3_DownloadOutcome ==
    [][\A c \in UserSlots :
         /\ calls[c].op = "download" /\ SuccessHandled(c) =>
              /\ lastReturn' = Returned("download", calls[c].manualId, TRUE)
              /\ SetHas(offlineManuals', calls[c].manualId)
              /\ calls[c].manualId \in SeqToSet(JSONParse(localStorage'))
              /\ JSONParse(localStorage') = offlineManuals'
         /\ /\ calls[c].op = "download" \/ calls'[c].op = "download"
            /\ CallStep(c) /\ ~SuccessHandled(c)
            => /\ offlineManuals' = offlineManuals
               /\ localStorage' = localStorage
               /\ calls'[c] = IdleCall =>
                    lastReturn' = Returned("download", calls[c].manualId, FALSE)
      ]_vars

C3_Witness ==
    \E id \in PageManuals :
        /\ lastReturn = Returned("download", id, TRUE)
        /\ SetHas(offlineManuals, id)
        /\ id \in SeqToSet(MirrorIds)

\* C4: id is in pendingDownloads exactly while a downloadManual(id) that
\* passed the guards has not returned; once it has returned, by any path,
\* id is not pending.
C4_PendingOnlyWhileInFlight ==
    \A id \in ManualIds \cup CallIds : id \in pendingDownloads <=> DownloadInFlight(id)

C4_Witness ==
    \E id \in PageManuals :
        /\ lastReturn.op = "download" /\ lastReturn.manualId = id
        /\ ~DownloadInFlight(id)
        /\ id \notin pendingDownloads
        /\ swRegistration /\ ~serviceWorkerFailed

\* C5: on the worker, when cache-manual(id, files) posts success with
\* fileCount n the list of get-offline-manuals holds exactly one record for
\* id, with fileCount n; when remove-manual(id) posts success it holds none;
\* the records of the other manuals are the same before and after.
\* (Violated.)
C5_WorkerListFollowsReplies ==
    [][\A t \in tasks :
         LET before == GetOfflineManuals(caches)
             after == GetOfflineManuals(caches')
             others(list) == {list[i] : i \in 1..Len(list)} \
                             {list[i] : i \in RecordsOf(list, t.manualId)}
         IN /\ CacheManualPutMeta(t) =>
                 /\ Cardinality(RecordsOf(after, t.manualId)) = 1
                 /\ \A i \in RecordsOf(after, t.manualId) :
                       after[i].fileCount = FileCount(t.manualId, t.files)
                 /\ others(after) = others(before)
            /\ SwRemoveManual(t) /\ CacheHas(caches, CacheNameOf(t.manualId)) =>
                 /\ RecordsOf(after, t.manualId) = {}
                 /\ others(after) = others(before)
      ]_vars

\* C6: when loadOfflineManuals handles a successful get-offline-manuals
\* reply, the offline set and the mirror become exactly the ids of the reply,
\* whatever they held before.
C6_ReconciliationOverwrites ==
    [][calls[LoadSlot].op = "load" /\ SuccessHandled(LoadSlot) =>
         LET ids == {calls[LoadSlot].reply.manuals[i].id :
                        i \in 1..Len(calls[LoadSlot].reply.manuals)} IN
         /\ SeqToSet(offlineManuals') = ids
         /\ SeqToSet(JSONParse(localStorage')) = ids
         /\ Len(offlineManuals') = Cardinality(ids)
      ]_vars

\* The reply is there and disagrees with the mirror.
C6_Witness ==
    /\ calls[LoadSlot].pc = "awaitReply"
    /\ calls[LoadSlot].reply.kind = "get-offline-manuals"
    /\ calls[LoadSlot].reply.success
    /\ SeqToSet(MapIds(calls[LoadSlot].reply.manuals)) # SeqToSet(MirrorIds)
    /\ MirrorIds # <<>>

\* C7: what saveOfflineManuals writes reads back as the set written; when
\* init() enters loadOfflineManuals the offline set becomes the mirror's ids
\* and the mirror is not written; when loadOfflineManuals ends without a
\* success reply (no registration, worker not active, no reply) the set and
\* the mirror stay as they are.
C7_MirrorRoundTrip ==
    [][/\ localStorage' # localStorage => JSONParse(localStorage') = offlineManuals'
       /\ initPc \in {"register", "polling"} /\ initPc' \in {"load", "ready"} =>
            /\ localStorage' = localStorage
            /\ offlineManuals' = MirrorIds
       /\ /\ calls[LoadSlot].op = "load" /\ calls'[LoadSlot] = IdleCall
          /\ ~Reload /\ ~SuccessHandled(LoadSlot)
          => /\ localStorage' = localStorage
             /\ offlineManuals' = offlineManuals
      ]_vars

\* A page loaded without a registration shows the set of the mirror.
C7_Witness ==
    /\ initPc = "ready" /\ ~swRegistration /\ ~reconciled
    /\ offlineManuals # <<>>
    /\ offlineManuals = MirrorIds

\* C8: in a session without a successful reconciliation an id enters the
\* offline set only by a successful download of this session, never from the
\* mirror.  (Violated.)
C8_NeverOfflineFromMirrorAlone ==
    [][~reconciled' =>
         \A id \in ManualIds :
            SetHas(offlineManuals', id) /\ ~SetHas(offlineManuals, id) =>
               lastReturn' = Returned("download", id, TRUE)
      ]_vars

C9_BlockedCall(id) ==
    /\ RemoveManual(id)
    /\ lastReturn' = Returned("remove", id, FALSE)
    /\ UNCHANGED <<calls, tasks, offlineManuals, localStorage, pendingDownloads>>

\* C9: removeManual(id) made while id is in pendingDownloads can always be
\* made and returns false at once; it posts no message and leaves the offline
\* set, the mirror and pendingDownloads as they are.
C9_RemoveWhilePending ==
    [][\A id \in PageManuals :
         id \in pendingDownloads =>
           /\ ENABLED C9_BlockedCall(id)
           /\ ~RemoveInFlight(id)' \/ RemoveInFlight(id)
           /\ ImmediateReturn("remove", id) =>
                /\ lastReturn'.value = FALSE
                /\ UNCHANGED <<tasks, offlineManuals, localStorage,
                               pendingDownloads>>
      ]_vars

C9_Witness ==
    \E id \in PageManuals :
        /\ id \in pendingDownloads
        /\ lastReturn = Returned("remove", id, FALSE)

\* C10: a removeManual(id) not blocked by a pending download returns true,
\* with id gone from the offline set and the mirror, exactly when it handles
\* a success reply; in every other outcome (success: false, timeout, worker
\* unavailable) it returns false and the set and the mirror are unchanged.
C10_RemoveOutcome ==
    [][/\ \A c \in UserSlots :
            /\ calls[c].op = "remove" /\ SuccessHandled(c) =>
                 /\ lastReturn' = Returned("remove", calls[c].manualId, TRUE)
                 /\ ~SetHas(offlineManuals', calls[c].manualId)
                 /\ calls[c].manualId \notin SeqToSet(JSONParse(localStorage'))
                 /\ JSONParse(localStorage') = offlineManuals'
            /\ /\ calls[c].op = "remove" \/ calls'[c].op = "remove"
               /\ CallStep(c) /\ ~SuccessHandled(c)
               => /\ offlineManuals' = offlineManuals
                  /\ localStorage' = localStorage
                  /\ calls'[c] = IdleCall =>
                       lastReturn' = Returned("remove", calls[c].manualId, FALSE)
       /\ \A id \in PageManuals :
            /\ ImmediateReturn("remove", id) =>
                 /\ lastReturn'.value = FALSE
                 /\ offlineManuals' = offlineManuals
                 /\ localStorage' = localStorage
            /\ lastReturn' = Returned("remove", id, TRUE) =>
                 \E c \in UserSlots :
                    /\ calls[c].op = "remove" /\ calls[c].manualId = id
                    /\ SuccessHandled(c)
      ]_vars

C10_Witness ==
    \E id \in PageManuals :
        /\ lastReturn = Returned("remove", id, TRUE)
        /\ ~SetHas(offlineManuals, id)
        /\ localStorage # NoItem /\ id \notin SeqToSet(MirrorIds)


\* The step enters removeManual(id) / downloadManual(id): the call returns
\* false at once, or its call record appears in a free slot.
RemoveEntered(id) ==
    \/ lastReturn' = Returned("remove", id, FALSE) /\ calls' = calls
    \/ \E c \in UserSlots :
          /\ calls[c] = IdleCall
          /\ calls'[c].op = "remove" /\ calls'[c].manualId = id
DownloadEntered(id) ==
    \/ lastReturn' = Returned("download", id, FALSE) /\ calls' = calls
    \/ \E c \in UserSlots :
          /\ calls[c] = IdleCall
          /\ calls'[c].op = "download" /\ calls'[c].manualId = id

\* C11: toggleOfflineStatus(id) enters removeManual(id) exactly when id is in
\* the offline set at the moment of the call and downloadManual(id) otherwise,
\* never both; as it returns what that call returns (`return await`), the only
\* return observed for the toggle is that operation's.
C11_ToggleDispatches ==
    [][\A id \in PageManuals :
          ToggleOfflineStatus(id) =>
             IF SetHas(offlineManuals, id)
             THEN RemoveEntered(id) /\ ~DownloadEntered(id)
                  /\ lastReturn'.op \in {"none", "remove"}
             ELSE DownloadEntered(id) /\ ~RemoveEntered(id)
                  /\ lastReturn'.op \in {"none", "download"}]_vars
\* A toggle of an offline manual has become a removeManual in flight.
C11_Witness ==
    \E id \in PageManuals :
       /\ SetHas(offlineManuals, id)
       /\ \E c \in UserSlots :
             calls[c].op = "remove" /\ calls[c].manualId = id

\* init() has found the worker unsupported (no registration was made), or has
\* caught a failed registration or a failed wait for the active worker.
FailureFound ==
    \/ serviceWorkerFailed
    \/ initPc = "ready" /\ ~swRegistration

\* C12: once init() has found the worker unsupported, unregistered or not
\* becoming active, no offline operation started from then on waits for the
\* worker or posts a message: no call record leaves the idle state.
C12_FailedNeverWaitsOrPosts ==
    [][FailureFound' =>
          \A c \in Slots : calls[c] = IdleCall => calls'[c] = IdleCall]_vars

\* The check-version messages posted so far, by the call that posted them.
Posted == {i \in 1..Len(checks) : checks[i].postedAt # 0}
Apart(a, b) == IF a <= b THEN b - a ELSE a - b

\* C13: of two checkForUpdates calls made less than one hour apart at most
\* one posts a check-version message, and any two check-version messages are
\* posted at least one hour apart.
C13_OneCheckPerHour ==
    /\ \A i, j \in 1..Len(checks) :
          i < j /\ Apart(checks[i].at, checks[j].at) < OneHour
             => ~(i \in Posted /\ j \in Posted)
    /\ \A i, j \in Posted :
          i # j => Apart(checks[i].postedAt, checks[j].postedAt) >= OneHour

\* The step belongs to a fetch handler: a handler starts, moves on or
\* answers.
FetchStep == fetching' # fetching \/ lastResponse' # lastResponse
\* The page images the store holds, each with the name of its cache.
PageImagesIn(store) ==
    UNION {{<<store[i].name, u>> : u \in {v \in store[i].entries :
                                             v.kind = "page"}} :
           i \in 1..Len(store)}

\* C14: no step of a fetch handler changes the cache store, whatever the
\* request and whether the cache or the network answers; and a page image
\* enters a cache only by the cache.addAll(files) of a cache-manual handler
\* that was given it.
C14_FetchLeavesStore ==
    [][/\ FetchStep => caches' = caches
       /\ \A p \in PageImagesIn(caches') \ PageImagesIn(caches) :
             \E t \in tasks :
                /\ CacheManualAddFiles(t, TRUE)
                /\ p[1] = CacheNameOf(t.manualId)
                /\ p[2] \in t.files]_vars
\* The network has answered the request for a page image that no cache
\* holds, and the image still is in no cache.
C14_Witness ==
    /\ lastResponse.source = "network"
    /\ lastResponse.url.kind = "page"
    /\ ~CachesMatch(caches, lastResponse.url)
    /\ fetching = {}

\* The step is one of a message handler or a lifecycle handler of the worker.
WorkerHandlerStep ==
    \/ \E t \in tasks :
          \/ CacheManualOpen(t)
          \/ \E ok \in BOOLEAN : CacheManualAddCore(t, ok)
          \/ \E ok \in BOOLEAN : CacheManualAddFiles(t, ok)
          \/ CacheManualPutMeta(t)
          \/ SwRemoveManual(t)
          \/ SwGetOfflineManualsKeys(t)
          \/ SwGetOfflineManualsRead(t)
          \/ SwActivateDelete(t)
    \/ \E ok \in BOOLEAN : SwInstall(ok)

\* C15: the cache store changes only in steps of the worker's message
\* handlers and lifecycle handlers; no step of the foreground coordinator
\* creates, writes or deletes a cache.
C15_OnlyWorkerMutatesStore ==
    [][caches' # caches => WorkerHandlerStep]_vars

\* The caches of a store that activate keeps, in their order.
KeptCaches(store) ==
    SelectSeq(store, LAMBDA cache : cache.name = CoreCacheName
                                    \/ StartsWithManual(cache.name))

\* C16: when the activate handler completes, the store holds exactly the
\* caches it held when the handler began that are the current core cache or
\* are named manual-..., each with the entries and metadata it had; every
\* other cache is gone.  (Between caches.keys() and the deletions the store
\* is the one the handler began with.)
C16_ActivateKeepsCoreAndManuals ==
    /\ [](workerState = "activating" =>
             \A t \in tasks : t.names = CacheKeys(caches))
    /\ [][workerState = "activating" /\ workerState' = "active"
             => caches' = KeptCaches(caches)]_vars
\* Activation has completed over a store that held a downloaded manual next
\* to the core cache of an older version: the manual cache is whole, the old
\* core cache is gone.
C16_Witness ==
    /\ workerState = "active"
    /\ CacheHas(caches, CacheNameOf("HRN113-001"))
    /\ CacheGet(caches, CacheNameOf("HRN113-001")) = ManualCache("HRN113-001")
    /\ ~CacheHas(caches, CoreCache("1.0.1").name)
    /\ Len(caches) = 2

\* The handlers that hold the port of call c.
HoldersOf(c) == {t \in tasks : t.port = c}
\* Handler t runs the request that call c posted.
RequestOf(t, c) ==
    /\ calls[c].pc = "awaitReply"
    /\ t.action = ActionOf(calls[c].op)
    /\ t.manualId = calls[c].manualId
    /\ t.files = calls[c].files

\* C17: the port of a call is held by the handler of that call's own request
\* and by no other, so whichever handler finishes first, a call gets only the
\* reply made for its request: the reply a call holds is of its action and
\* names its manual, and it arrives in the step that ends the call's handler.
C17_ReplyReachesItsCall ==
    /\ [](\A c \in Slots :
             /\ Cardinality(HoldersOf(c)) <= 1
             /\ \A t \in HoldersOf(c) : RequestOf(t, c)
             /\ calls[c].reply # NoReply =>
                   /\ calls[c].reply.kind = ActionOf(calls[c].op)
                   /\ calls[c].op \in {"download", "remove"} =>
                         calls[c].reply.manualId = calls[c].manualId)
    /\ [][\A c \in Slots :
             calls'[c].reply # NoReply /\ calls'[c].reply # calls[c].reply
                => \E t \in HoldersOf(c) : t \notin tasks']_vars
\* A download and the reconciliation are outstanding together and the
\* worker has answered the download first.
C17_Witness ==
    /\ calls[LoadSlot].pc = "awaitReply" /\ calls[LoadSlot].reply = NoReply
    /\ \E c \in UserSlots :
          /\ calls[c].op = "download"
          /\ calls[c].reply.kind = "cache-manual"

\* C18: every sendMessageToSW call settles, whatever the state of the
\* registration and of the worker: a call of the page that is in flight
\* comes to its end (or the page is loaded anew), so every downloadManual
\* and removeManual returns.
C18_EveryCallSettles ==
    \A c \in Slots : (calls[c].pc # "idle") ~> (calls[c].pc = "idle")

\* The query has a letter token of 3 letters or more: three letters in a row.
HasLongToken(query) ==
    \E i \in 1..Len(query) :
       /\ i + 2 <= Len(query)
       /\ IsLetter(query[i]) /\ IsLetter(query[i + 1]) /\ IsLetter(query[i + 2])

\* C19: a query all of whose letter tokens are shorter than 3 letters (the
\* empty query and a query without letters among them) makes search return
\* the empty sequence, with any index, loaded or not, and any page list.
C19_ShortTokensFindNothing ==
    searched.done /\ ~HasLongToken(searched.query) => searched.results = <<>>
\* search has returned nothing for the query "aa" although the index holds
\* the word "aa" with an occurrence on a page that exists.
C19_Witness ==
    /\ searched.done
    /\ searched.query = <<"a", "a">>
    /\ searched.results = <<>>
    /\ pages > 0
    /\ \E i \in 1..Len(searchIndex.words) :
          /\ searchIndex.words[i].word = <<"a", "a">>
          /\ searchIndex.words[i].matches[1].pageId = 0

\* C20: the sequence search returns has non-increasing finalScore and every
\* element has finalScore >= 6.
C20_SortedAndAtLeastSix ==
    searched.done =>
       \A i \in 1..Len(searched.results) :
          /\ searched.results[i].finalScore >= 6
          /\ i < Len(searched.results) =>
                searched.results[i].finalScore >=
                   searched.results[i + 1].finalScore
\* search has returned two pages, the one with the higher page id first
\* because it scores more.
C20_Witness ==
    /\ searched.done
    /\ Len(searched.results) = 2
    /\ searched.results[1].pageId > searched.results[2].pageId
    /\ searched.results[1].finalScore > searched.results[2].finalScore

\* The tokens of a query: the maximal runs of letters, in lower case, each
\* named by the position of its first character.
TokenStarts(str) ==
    {i \in 1..Len(str) : IsLetter(str[i]) /\ (i = 1 \/ ~IsLetter(str[i - 1]))}
TokenAt(str, i) ==
    LET last == CHOOSE j \in i..Len(str) :
                   /\ j = Len(str) \/ ~IsLetter(str[j + 1])
                   /\ \A k \in i..j : IsLetter(str[k])
    IN  ToLowerCase(SubSeq(str, i, last))
\* The tokens search keeps, in query order: those of three letters or more.
KeptTokens(str) ==
    LET starts == TokenStarts(str)
        tokens == [n \in 1..Cardinality(starts) |->
                      TokenAt(str, CHOOSE i \in starts :
                                      Cardinality({j \in starts : j < i}) = n - 1)]
    IN  SelectSeq(tokens, LAMBDA token : Len(token) >= 3)

\* The weight of index word w for query token q under the matching policy,
\* first rule that applies; 0 when none does.
RuleWeight(w, q) ==
    IF w = q THEN 10
    ELSE IF StartsWith(w, q) THEN 6
    ELSE IF StartsWith(q, w) /\ Len(w) >= 3 THEN 4
    ELSE IF /\ Len(q) >= 5 /\ Len(w) >= 5 /\ Includes(w, q)
            /\ 10 * Len(q) >= 6 * Len(w) THEN 2
    ELSE 0

\* The triples (query token, index word, occurrence) that contribute to a
\* page, as <<number of the token, number of the word, number of the
\* occurrence, weight>>: the pair matches and the occurrence is on the page.
TriplesOf(index, tokens, pageId) ==
    UNION {LET weight == RuleWeight(index.words[w].word, tokens[t]) IN
           IF weight > 0
           THEN {<<t, w, o, weight>> :
                   o \in {n \in 1..Len(index.words[w].matches) :
                            index.words[w].matches[n].pageId = pageId}}
           ELSE {} :
           t \in 1..Len(tokens), w \in 1..Len(index.words)}
RECURSIVE WeightOver(_)
WeightOver(triples) ==
    IF triples = {} THEN 0
    ELSE LET tr == CHOOSE t \in triples : TRUE IN
         tr[4] + WeightOver(triples \ {tr})
\* For each page id of the index, what its triples come to: their number,
\* the weight sum, the number of exact matches and the final score.
Tally ==
    LET tokens == KeptTokens(searched.query)
        ids == UNION {{searchIndex.words[w].matches[o].pageId :
                          o \in 1..Len(searchIndex.words[w].matches)} :
                      w \in 1..Len(searchIndex.words)}
    IN  [pageId \in ids |->
           LET triples == TriplesOf(searchIndex, tokens, pageId)
               weight == WeightOver(triples)
               exact == Cardinality({tr \in triples : tr[4] = 10})
           IN  [triples |-> Cardinality(triples), weight |-> weight,
                exact |-> exact, final |-> weight + 5 * exact]]
\* The pages that qualify: in the page list, weight sum >= 4, final score >= 6
QualifyingIn(sums) ==
    {pageId \in DOMAIN sums :
        /\ pageId < pages
        /\ sums[pageId].weight >= 4 /\ sums[pageId].final >= 6}
ReturnedPages == {searched.results[i].pageId : i \in 1..Len(searched.results)}

\* C21: search returns at most 20 results; when more than 20 pages qualify
\* it returns 20 of them, and no qualifying page left out has a higher final
\* score than a page returned.
C21_AtMostTwentyBest ==
    searched.done =>
       LET tally == Tally
           qualifying == QualifyingIn(tally) IN
       /\ Len(searched.results) <= 20
       /\ Cardinality(qualifying) > 20 =>
             /\ Len(searched.results) = 20
             /\ ReturnedPages \subseteq qualifying
             /\ \A left \in qualifying \ ReturnedPages :
                   \A i \in 1..Len(searched.results) :
                      searched.results[i].finalScore >= tally[left].final
\* More than 20 pages qualify; the 20 returned begin with a page above id 20
\* that scores more than the last one returned, and a page is left out.
C21_Witness ==
    /\ searched.done
    /\ Cardinality(QualifyingIn(Tally)) > 20
    /\ Len(searched.results) = 20
    /\ searched.results[1].pageId > 20
    /\ searched.results[1].finalScore > searched.results[20].finalScore
    /\ QualifyingIn(Tally) \ ReturnedPages # {}

\* Position of a page in the results (0: not returned).
PositionOf(pageId) ==
    IF pageId \in ReturnedPages
    THEN CHOOSE i \in 1..Len(searched.results) :
            searched.results[i].pageId = pageId
    ELSE 0
\* The page is reached through exact matches only / through none.
ExactOnly(sums, pageId) ==
    sums[pageId].triples > 0 /\ sums[pageId].exact = sums[pageId].triples
PartialOnly(sums, pageId) ==
    sums[pageId].triples > 0 /\ sums[pageId].exact = 0

\* C22: of two returned pages with the same number of matching occurrences,
\* one reached through exact matches only and the other through prefix or
\* partial matches only, the first has the strictly higher final score and
\* comes first in the results.
C22_ExactOutranksPartial ==
    searched.done =>
       LET tally == Tally IN
       \A p, r \in ReturnedPages :
          /\ ExactOnly(tally, p) /\ PartialOnly(tally, r)
          /\ tally[p].triples = tally[r].triples
          => /\ searched.results[PositionOf(p)].finalScore >
                   searched.results[PositionOf(r)].finalScore
             /\ PositionOf(p) < PositionOf(r)
\* The query "motor" has found page 1 through the word "motor" and page 0
\* through "motoren", one occurrence each, and returned page 1 first.
C22_Witness ==
    /\ searched.done
    /\ searched.query = <<"m", "o", "t", "o", "r">>
    /\ Len(searched.results) = 2
    /\ searched.results[1].pageId = 1 /\ searched.results[2].pageId = 0
    /\ ExactOnly(Tally, 1) /\ PartialOnly(Tally, 0)
    /\ Tally[1].triples = 1 /\ Tally[0].triples = 1

\* The index holds the single word "udstødning" with one occurrence, on page
\* 1, page 1 is in the page list, and the query was "udstødningsrør".
UdstoedningCase ==
    /\ searched.done
    /\ searched.query = Udstoedningsroer
    /\ searchIndex.loaded
    /\ searchIndex.words = <<[word |-> Udstoedning,
                              matches |-> <<[pageId |-> 1]>>]>>
    /\ pages > 1

\* C23: with the index holding only "udstødning", once on page 1, and page 1
\* in the page list, the query "udstødningsrør" matches the word with weight
\* 6 and search returns page 1 with final score 6.
C23_UdstoedningsroerFound ==
    UdstoedningCase =>
       /\ searched.pageMatches.keys = <<1>>
       /\ searched.pageMatches.at[1].score = 6
       /\ Len(searched.results) = 1
       /\ searched.results[1].pageId = 1
       /\ searched.results[1].finalScore = 6

\* The occurrences of the index's word number w that are on a page.
TimesOn(w, pageId) ==
    Cardinality({n \in 1..Len(searchIndex.words[w].matches) :
                    searchIndex.words[w].matches[n].pageId = pageId})

\* C27: a query token q of three letters or more and an index word w get one
\* weight, that of the first rule that applies (10 equal, 6 w starts with q,
\* 4 q starts with w of 3 letters or more, 2 both of 5 letters or more, w
\* contains q and 10|q| >= 6|w|); the pair counts once for each occurrence of
\* w with that weight, and not at all when no rule applies.  Stated for a
\* query of one kept token and an index of one word.
C27_FirstRuleOnly ==
    /\ searched.done /\ searchIndex.loaded
    /\ Len(KeptTokens(searched.query)) = 1 /\ Len(searchIndex.words) = 1
    => LET weight == RuleWeight(searchIndex.words[1].word,
                                KeptTokens(searched.query)[1])
           found == searched.pageMatches IN
       IF weight = 0 THEN found = NoPageMatches
       ELSE /\ SeqToSet(found.keys) =
                  {searchIndex.words[1].matches[n].pageId :
                      n \in 1..Len(searchIndex.words[1].matches)}
            /\ \A i \in 1..Len(found.keys) :
                  /\ found.at[i].score = weight * TimesOn(1, found.keys[i])
                  /\ Len(found.at[i].matchedWords) = TimesOn(1, found.keys[i])
\* The query "stødni" has met the index word "udstødning" (6 letters of 10,
\* inside the word): the page of its occurrence has score 2.
C27_Witness ==
    /\ searched.done
    /\ searched.query = <<"s", "t", "ø", "d", "n", "i">>
    /\ Len(searchIndex.words) = 1
    /\ searchIndex.words[1].word = Udstoedning
    /\ Len(searchIndex.words[1].matches) = 1
    /\ searched.pageMatches.at[1].score = 2

\* C28: the finalScore of a returned page is the sum of the weights of its
\* (query token, index word, occurrence) triples plus 5 for each exact one;
\* its weight sum is at least 4 and its final score at least 6.
C28_FinalScoreIsTheTally ==
    searched.done =>
       LET tally == Tally IN
       \A i \in 1..Len(searched.results) :
          LET result == searched.results[i] IN
          /\ result.pageId \in DOMAIN tally
          /\ result.score = tally[result.pageId].weight
          /\ result.exactMatches = tally[result.pageId].exact
          /\ result.finalScore =
                tally[result.pageId].weight + 5 * tally[result.pageId].exact
          /\ tally[result.pageId].weight >= 4
          /\ result.finalScore >= 6
\* The query "motor motoren" has found a page holding "motor" and "motoren"
\* once each: four triples, 10 + 6 + 4 + 10 with two exact, final score 40.
C28_Witness ==
    /\ searched.done
    /\ Len(KeptTokens(searched.query)) = 2
    /\ Len(searched.results) = 1
    /\ Tally[searched.results[1].pageId].triples = 4
    /\ Tally[searched.results[1].pageId].exact = 2
    /\ searched.results[1].finalScore = 40

\* The place of a page in the order in which the scan first touched the
\* pages (query tokens in query order, index words in index order,
\* occurrences in stored order).
TouchedAt(pageId) ==
    CHOOSE k \in 1..Len(searched.pageMatches.keys) :
       searched.pageMatches.keys[k] = pageId

\* C29: results with equal final score are in the order in which their pages
\* were first touched by a match during the scan.
C29_TiesInTouchOrder ==
    searched.done =>
       \A i, j \in 1..Len(searched.results) :
          /\ i < j
          /\ searched.results[i].finalScore = searched.results[j].finalScore
          => TouchedAt(searched.results[i].pageId) <
                TouchedAt(searched.results[j].pageId)

\* C24: getSearchContext returns a non-empty string for every text and
\* query, and the sentinel 'Ingen kontekst tilgængelig' for the empty text.
C24_ContextNeverEmpty ==
    extracted.done =>
       /\ extracted.context # <<>>
       /\ extracted.text = <<>> => extracted.context = Sentinel
\* getSearchContext was called with the empty text and a query with words,
\* and returned the sentinel.
C24_Witness ==
    /\ extracted.done
    /\ extracted.text = <<>>
    /\ extracted.query = <<"a", "b", "c">>
    /\ extracted.context = Sentinel

\* C25: for a text of 1 to 99 characters getSearchContext chooses offset 0
\* and returns the text as it is, without an ellipsis at either end.
C25_ShortTextWhole ==
    /\ extracted.done
    /\ Len(extracted.text) > 0 /\ Len(extracted.text) < WindowLength
    => /\ extracted.bestIndex = 0
       /\ extracted.context = extracted.text
\* A text of 99 characters with the query's word at offset 60 came back whole.
C25_Witness ==
    /\ extracted.done
    /\ Len(extracted.text) = 99
    /\ extracted.query = <<"a", "b", "c">>
    /\ SubSeq(extracted.text, 61, 63) = <<"a", "b", "c">>
    /\ extracted.context = extracted.text

\* The distinct tokens of a query under the letter-class tokenizer of search.
DistinctTokens(query) == {TokenAt(query, i) : i \in TokenStarts(query)}
\* The offsets of the windows of a text and the coverage of the window at an
\* offset: the distinct tokens found in it, case-insensitively.
WindowOffsets(text) ==
    {i \in 0..(Len(text) - WindowLength) : i % WindowStep = 0}
Coverage(text, query, i) ==
    Cardinality({token \in DistinctTokens(query) :
                    Includes(Substring(ToLowerCase(text), i, i + WindowLength),
                             token)})

\* C30: for a text of 100 characters or more, the window chosen by the first
\* pass of getSearchContext is the one of lowest offset among the windows
\* (offsets 0, 10, 20, ...) that contain the largest number of distinct
\* letter-class tokens of the query.
C30_FirstPassBestCoverage ==
    extracted.done /\ Len(extracted.text) >= WindowLength =>
       /\ extracted.firstIndex \in WindowOffsets(extracted.text)
       /\ \A i \in WindowOffsets(extracted.text) :
             LET chosen == Coverage(extracted.text, extracted.query,
                                    extracted.firstIndex)
                 other == Coverage(extracted.text, extracted.query, i) IN
             /\ other <= chosen
             /\ other = chosen => extracted.firstIndex <= i

\* The runs of letters of a text, each as <<start, length>>.
LetterRuns(text) ==
    {run \in (1..Len(text)) \X (1..Len(text)) :
        /\ run[1] + run[2] - 1 <= Len(text)
        /\ \A i \in run[1]..(run[1] + run[2] - 1) : IsLetter(text[i])
        /\ run[1] = 1 \/ ~IsLetter(text[run[1] - 1])
        /\ run[1] + run[2] > Len(text) \/ ~IsLetter(text[run[1] + run[2]])}

\* The runs of the text that highlightText's rules select for the query.
QualifyingRuns(text, query) ==
    LET queryWords == MatchWords(ToLowerCase(query)) IN
    {run \in LetterRuns(text) :
        \E k \in 1..Len(queryWords) :
           /\ Len(queryWords[k]) >= 3
           /\ Highlightable(
                 ToLowerCase(SubSeq(text, run[1], run[1] + run[2] - 1)),
                 queryWords[k])}

\* The text with each of the runs inside one marker.
RECURSIVE WrappedOnce(_, _)
WrappedOnce(text, runs) ==
    IF runs = {} THEN text
    ELSE LET last == CHOOSE run \in runs : \A r \in runs : r[1] <= run[1] IN
         WrappedOnce(SubSeq(text, 1, last[1] - 1) \o MarkOpen
                        \o SubSeq(text, last[1], last[1] + last[2] - 1)
                        \o MarkClose
                        \o SubSeq(text, last[1] + last[2], Len(text)),
                     runs \ {last})

\* C26: the output of highlightText is the context with each qualifying word
\* occurrence inside exactly one highlight marker and nothing else changed:
\* no marker nested in another, no occurrence wrapped twice, no text of an
\* inserted marker wrapped, also when the context has a word in two letter
\* cases and when a qualifying word is "span", "class" or "highlight".
C26_EachOccurrenceWrappedOnce ==
    highlighted.done =>
       highlighted.html =
          WrappedOnce(highlighted.text,
                      QualifyingRuns(highlighted.text, highlighted.query))

\* The words of a text, as a set, that a predicate on (lower-cased word,
\* query token) selects for some token of the query of three letters or more.
SelectedWords(text, query, Selects(_, _)) ==
    LET queryWords == MatchWords(ToLowerCase(query))
        textWords == MatchWords(text)
    IN  {textWords[t] : t \in
           {t \in 1..Len(textWords) :
               \E k \in 1..Len(queryWords) :
                  /\ Len(queryWords[k]) >= 3
                  /\ Selects(ToLowerCase(textWords[t]), queryWords[k])}}

\* Rules 1-4 of search, the word in the role of the index word.
SearchRule(word, token) == ScoreBonus(word, token) > 0
\* Rules 1-4 of search, or rule 4 with the roles exchanged: the token has the
\* word in it and the word is at least 0.6 times as long as the token.
EitherWayRule(word, token) ==
    \/ ScoreBonus(word, token) > 0
    \/ /\ Len(word) >= 5 /\ Len(token) >= 5
       /\ Includes(token, word)
       /\ 10 * Len(word) >= 6 * Len(token)

\* C31 as stated: the words highlightText marks are those that rules 1-4 of
\* search select, the word in the role of the index token.
C31_MarksWhatSearchMatches ==
    highlighted.done /\ highlighted.text # <<>> /\ highlighted.query # <<>> =>
       SeqToSet(highlighted.words) =
          SelectedWords(highlighted.text, highlighted.query, SearchRule)

\* C31 amended: the words highlightText marks are those that rules 1-4 of
\* search select, or that a query token of five letters or more contains,
\* the word having five letters or more and at least 0.6 times the token's
\* length.
C31_MarksEitherWay ==
    highlighted.done /\ highlighted.text # <<>> /\ highlighted.query # <<>> =>
       SeqToSet(highlighted.words) =
          SelectedWords(highlighted.text, highlighted.query, EitherWayRule)

\* A word is marked that only the exchanged rule selects, next to a word that
\* is not marked.
C31_Witness ==
    /\ highlighted.done
    /\ SelectedWords(highlighted.text, highlighted.query, SearchRule)
          # SeqToSet(highlighted.words)
    /\ SeqToSet(highlighted.words) # SeqToSet(MatchWords(highlighted.text))
    /\ highlighted.words # <<>>

\* Some cache of the store holds a response for the URL.
HeldBySomeCache(url) ==
    \E i \in 1..Len(caches) : url \in caches[i].entries

\* C33: a request that is not a GET gets no handler and no answer of the
\* worker; a handler whose caches.match finds the request in any cache
\* answers with that cached response and never goes to the network; a
\* handler goes to the network, and a network response is returned, only
\* after its caches.match found nothing.
C33_CacheFirstForGetOnly ==
    [][/\ \A f \in fetching' : f.request.method = "GET"
       /\ \A request \in Requests :
             request.method # "GET" /\ FetchEvent(request) =>
                /\ fetching' = fetching
                /\ lastResponse'.source = "browser"
       /\ \A f \in fetching :
             f.pc = "match" /\ f \notin fetching' =>
                IF HeldBySomeCache(f.request.url)
                THEN /\ lastResponse' = Response("cache", f.request.url)
                     /\ fetching' = fetching \ {f}
                ELSE /\ fetching' = (fetching \ {f}) \cup
                                       {[f EXCEPT !.pc = "network"]}
                     /\ lastResponse' = lastResponse
       /\ \A f \in fetching' :
             f.pc = "network" /\ f \notin fetching =>
                /\ [f EXCEPT !.pc = "match"] \in fetching
                /\ ~HeldBySomeCache(f.request.url)
       /\ lastResponse'.source = "network" /\ lastResponse' # lastResponse =>
             \E f \in fetching : f.pc = "network" /\ f \notin fetching'
      ]_vars

\* A manual's page that a download put into the manual's cache was answered
\* from the cache.
C33_Witness ==
    \E id \in PageManuals :
       /\ lastResponse = Response("cache", Url(id, "html", 0))
       /\ \E i \in 1..Len(caches) :
             /\ caches[i].name = CacheNameOf(id)
             /\ Url(id, "html", 0) \in caches[i].entries
       /\ Len(caches) >= 2

\* The answer the claim gives to a request whose cache lookup found nothing
\* and whose network request failed.
OfflineAnswer(request) ==
    CASE UrlClass(request.url) = "manual" -> Response("cache", IndexUrl)
      [] UrlClass(request.url) = "image" -> Response("notFound", request.url)
      [] OTHER -> IF request.html THEN Response("cache", IndexUrl)
                  ELSE Response("undefined", request.url)

\* C34: a handler that ends after a cache miss and a failed network request
\* answers by the class of its request alone: the cached landing page for a
\* manual's content page, the 404 response for a page image, and for any
\* other request the landing page if it accepts HTML, a fetch failure if not.
C34_OfflineAnswerByClass ==
    [][\A f \in fetching :
          /\ f.pc \in {"network", "fallback"}
          /\ f \notin fetching'
          /\ fetching' = fetching \ {f}
          /\ lastResponse'.source # "network"
          => lastResponse' = OfflineAnswer(f.request)
      ]_vars

\* The handler of message k is still running.
Handling(k) == \E t \in tasks : t.port = ClientPort(k)

\* C39: on the port of a cache-manual, remove-manual, check-version or
\* get-offline-manuals message nothing is posted while its handler runs and
\* exactly one reply, with a boolean success field, has been posted once the
\* handler has ended, whether it succeeded or threw; nothing is posted for a
\* skipWaiting message; a message with an unknown action has exactly one
\* reply, which carries an error.
C39_OneReplyPerMessage ==
    \A k \in 1..Len(clientPorts) :
       LET message == clientPorts[k] IN
       IF message.action \in KnownActions
       THEN IF Handling(k) THEN message.replies = <<>>
            ELSE /\ Len(message.replies) = 1
                 /\ message.replies[1].kind = message.action
                 /\ message.replies[1].success \in BOOLEAN
       ELSE IF message.action = "skipWaiting" THEN message.replies = <<>>
       ELSE /\ Len(message.replies) = 1
            /\ message.replies[1].kind = "error"

\* A check-version whose fetch failed and a cache-manual that succeeded have
\* both been answered.
C39_Witness ==
    /\ tasks = {}
    /\ \E k \in 1..Len(clientPorts) :
          /\ clientPorts[k].action = "check-version"
          /\ clientPorts[k].replies = <<CheckVersionReply(FALSE)>>
    /\ \E k \in 1..Len(clientPorts) :
          /\ clientPorts[k].action = "cache-manual"
          /\ Len(clientPorts[k].replies) = 1
          /\ clientPorts[k].replies[1].success

\* The places of a store whose cache has a name that starts with "manual-",
\* and the names of these caches in the order of the store.
ManualPlaces(store) ==
    {i \in 1..Len(store) : store[i].name.prefix = "manual-"}
ManualNames(store) ==
    [k \in 1..Cardinality(ManualPlaces(store)) |->
        store[CHOOSE i \in ManualPlaces(store) :
                 Cardinality({j \in ManualPlaces(store) : j < i}) = k - 1].name]
\* The record of a cache name: the metadata entry that the store holds for
\* it, the zero-filled record with the id of the name when it holds none.
RecordFor(store, name) ==
    IF \E i \in 1..Len(store) : store[i].name = name /\ store[i].meta.stored
    THEN LET i == CHOOSE i \in 1..Len(store) : store[i].name = name IN
         store[i].meta
    ELSE [id |-> name.rest, fileCount |-> 0, stored |-> FALSE]
\* One record for each manual cache of a store and for no other cache.
RecordsFor(store) ==
    [k \in 1..Len(ManualNames(store)) |->
        RecordFor(store, ManualNames(store)[k])]

\* The reply that message k's handler posted with success, if it did.
Listed(k) ==
    /\ clientPorts[k].action = "get-offline-manuals"
    /\ clientPorts[k].replies # <<>>
    /\ clientPorts[k].replies[1].success = TRUE

\* C32: the list that a get-offline-manuals handler posts has one record for
\* each cache whose name starts with "manual-", in the order of the store,
\* and none for another cache; the record is the cache's stored metadata
\* entry, or {id, cachedAt: 0, fileCount: 0} with the id of the cache name
\* when it has none.  With no other message handled, the list is that of the
\* store as it is; with another handler in between, the names are those the
\* store had when the handler listed them and each record is what the store
\* held when the handler read it.
C32_OneRecordPerManualCache ==
    /\ [](Len(clientPorts) = 1 /\ Listed(1) =>
             clientPorts[1].replies[1].manuals = RecordsFor(caches))
    /\ [][\A t \in tasks :
             /\ t.action = "get-offline-manuals"
             /\ t.port > LoadSlot
             /\ t \notin tasks'
             /\ ~(clientPorts'[t.port - LoadSlot].replies # <<>>
                  /\ ~clientPorts'[t.port - LoadSlot].replies[1].success)
             => LET k == t.port - LoadSlot
                    names == IF t.pc = "keys" THEN ManualNames(caches)
                             ELSE t.names
                    records == IF t.pc = "keys" THEN <<>>
                               ELSE Append(t.acc,
                                           RecordFor(caches, Head(t.names)))
                    left == IF t.pc = "keys" THEN names ELSE Tail(names)
                IN  IF left = <<>>
                    THEN /\ clientPorts'[k].replies =
                               <<OfflineManualsReply(records)>>
                         /\ tasks' = tasks \ {t}
                    ELSE /\ clientPorts'[k].replies = <<>>
                         /\ tasks' = (tasks \ {t}) \cup
                               {[t EXCEPT !.pc = "read", !.names = left,
                                          !.acc = records]}
         ]_vars

\* A list was posted for a store with the core cache, a manual cache with
\* its metadata and a manual cache without: two records, one of them the
\* zero-filled one.
C32_Witness ==
    /\ Len(clientPorts) = 1 /\ Listed(1)
    /\ Len(caches) = 3
    /\ \E i \in 1..3 : caches[i].name = CoreCacheName
    /\ Len(clientPorts[1].replies[1].manuals) = 2
    /\ \E j \in 1..2 : ~clientPorts[1].replies[1].manuals[j].stored
    /\ \E j \in 1..2 : clientPorts[1].replies[1].manuals[j].stored

\* The only message so far was a cache-manual of id, and it was answered
\* with a failure.
FailedAlone(id) ==
    /\ Len(clientPorts) = 1
    /\ clientPorts[1].action = "cache-manual"
    /\ clientPorts[1].replies = <<CacheManualReply(FALSE, id, 0)>>

\* C36: when a cache-manual of id has replied failure, and nothing else was
\* asked of the worker, the store is as it was before the message.  The
\* worker starts with no cache manual-<id> or with the complete one of an
\* earlier download, so a cache manual-<id> in the store is that complete
\* one: the failed download has left none, and get-offline-manuals lists id
\* only with the metadata of that earlier download.
C36_FailedDownloadLeavesNoCache ==
    \A id \in PageManuals :
       FailedAlone(id) =>
          /\ CacheHas(caches, CacheNameOf(id)) =>
                CacheGet(caches, CacheNameOf(id)) = ManualCache(id)
          /\ \A j \in 1..Len(GetOfflineManuals(caches)) :
                GetOfflineManuals(caches)[j].id = id =>
                   GetOfflineManuals(caches)[j] = ManualCache(id).meta

\* The step handles a worker's list for init()'s reconciliation.
ReconciliationHandled ==
    /\ HandleReply(LoadSlot)
    /\ calls[LoadSlot].op = "load" /\ calls[LoadSlot].reply.success

\* C38: a remove-manual that the worker handles when the store has no cache
\* manual-<id> is answered with success: false; the removeManual(id) that
\* gets this answer returns false and leaves the offline set and the mirror
\* as they are; while id is in the offline set toggleOfflineStatus(id) is a
\* removeManual(id) and starts no download; and id leaves the mirror only
\* when a removal that found the cache or a reconciliation is handled (the
\* offline set also when the page is loaded again, which reads the mirror).
C38_StaleIdStaysOffline ==
    [][/\ \A t \in tasks :
             /\ t.action = "remove-manual" /\ SwRemoveManual(t)
             /\ t.port \in UserSlots /\ calls[t.port].pc = "awaitReply"
             => calls'[t.port].reply =
                   RemoveManualReply(CacheHas(caches, CacheNameOf(t.manualId)),
                                     t.manualId)
       /\ \A c \in UserSlots :
             /\ calls[c].op = "remove" /\ HandleReply(c)
             /\ ~calls[c].reply.success
             => /\ lastReturn' = Returned("remove", calls[c].manualId, FALSE)
                /\ offlineManuals' = offlineManuals
                /\ localStorage' = localStorage
       /\ \A id \in PageManuals :
             /\ SetHas(offlineManuals, id) /\ ToggleOfflineStatus(id) =>
                   /\ RemoveManual(id)
                   /\ pendingDownloads' = pendingDownloads
                   /\ \A c \in UserSlots : calls'[c].op # "download"
                                           \/ calls'[c] = calls[c]
             /\ SetHas(offlineManuals, id) /\ ~SetHas(offlineManuals', id) =>
                   \/ Reload
                   \/ ReconciliationHandled
                   \/ \E c \in UserSlots :
                         /\ calls[c].op = "remove" /\ calls[c].manualId = id
                         /\ SuccessHandled(c)
             /\ id \in SeqToSet(MirrorIds) /\ id \notin SeqToSet(MirrorIds') =>
                   \/ ReconciliationHandled
                   \/ \E c \in UserSlots :
                         /\ calls[c].op = "remove" /\ calls[c].manualId = id
                         /\ SuccessHandled(c)
      ]_vars

\* removeManual(id) has just returned false with id in the offline set and
\* in the mirror and no cache manual-<id> in the store.
C38_Witness ==
    \E id \in PageManuals :
       /\ lastReturn = Returned("remove", id, FALSE)
       /\ SetHas(offlineManuals, id)
       /\ id \in SeqToSet(MirrorIds)
       /\ ~CacheHas(caches, CacheNameOf(id))
       /\ tasks = {}

\* Every call of the page has returned and the worker has no handler left.
AllReturned ==
    /\ \A c \in Slots : calls[c] = IdleCall
    /\ pendingDownloads = {}
    /\ tasks = {}

\* C37: when init() has sent get-offline-manuals and downloadManual(id) is
\* called while that request is outstanding, then for every order of the
\* worker's steps and of the two replies, once both have completed the
\* offline set contains id if and only if the store holds a metadata-tagged
\* cache manual-<id>.
C37_ReconciliationAndDownloadAgree ==
    initPc = "ready" /\ AllReturned =>
       \A id \in PageManuals : SetHas(offlineManuals, id) <=> TaggedCache(id)

\* C35: when downloadManual(id) is called while removeManual(id) waits for
\* the worker's reply, then for every interleaving of cacheManual's and
\* removeManual's steps and of the two replies, once both calls have
\* returned id is in the offline set if and only if the store holds the
\* cache manual-<id> with its metadata.
C35_RemoveAndDownloadAgree ==
    \A id \in PageManuals :
       AllReturned /\ lastReturn.manualId = id =>
          (TaggedCache(id) <=> SetHas(offlineManuals, id))
====
